---- MODULE Spec2Model ----
(***************************************************************************)
(* Verification model of the we-study structured-generation pipeline:      *)
(* the chunker and batcher, the response repair cascade                    *)
(* (sanitizeAndParseJSON), the generation client (makeGenerateRequest,     *)
(* retryWithBackoff), the batch orchestrator and merger                    *)
(* (generateStudyMaterials) and the POST handler that drives them.         *)
(*                                                                         *)
(* Text is modelled as a sequence of lexemes: one-character strings for    *)
(* punctuation, quotes and white space, and whole words for runs of        *)
(* identifier characters.                                                  *)
(***************************************************************************)
EXTENDS Integers, Sequences, FiniteSets, TLC

(***************************************************************************)
(* Bounds of the model.                                                    *)
(***************************************************************************)
MaxContentLen == 4
MaxChunkLen == 3
MaxBatch == 3
MaxRetriesArg == 3
MaxCards == 2
MaxQuiz == 1
MaxArrayLen == 3
MaxSize == 2
MaxLoopSteps == 4
MaxPartials == 2

(***************************************************************************)
(* Program constants.                                                      *)
(***************************************************************************)
ConcurrencyLimit == 3
ParseRetryLimit == 2
HashtagLimit == 8
DefaultInitialDelay == 10000
ServerErrorDelay == 15000
RateLimitStatus == 429
ServerErrorStatus == 500
OtherErrorStatus == 400
PacingDelay == 1000

VARIABLES
    content,            \* the raw content handed to the chunker
    chunkSize,          \* chunkSize of generateStudyMaterials
    concurrencyLimit,   \* concurrencyLimit of generateStudyMaterials
    contentChunks,      \* result of content.match(...) || []
    chunks,             \* result of chunkArray(contentChunks, concurrencyLimit)
    pc,                 \* position of the handler
    maxRetries,         \* retryWithBackoff: parameter maxRetries
    initialDelay,       \* retryWithBackoff: parameter initialDelay (ms)
    retries,            \* retryWithBackoff: local counter retries
    calls,              \* retryWithBackoff: number of times fn was invoked
    waits,              \* the delays awaited with delay(ms), in order (ms)
    outcomes,           \* retryWithBackoff: status of each settled call of fn
    rpc,                \* retryWithBackoff: "off", "call", "wait", "returned", "thrown"
    rerr,               \* retryWithBackoff: status of the error thrown
    rawText,            \* sanitizeAndParseJSON: the argument text
    repaired,           \* sanitizeAndParseJSON: its outcome
    spc,                \* sanitizeAndParseJSON: "off", "raw", "done"
    group,              \* generateStudyMaterials: loop index i, the chunk group in progress (1-based)
    tasks,              \* one makeGenerateRequest call chain per chunk
    allResponses,       \* generateStudyMaterials: allResponses
    combinedMaterials,  \* generateStudyMaterials: the merged document
    storeCalls,         \* the materials storeStudyMaterials was invoked with
    response,           \* the HTTP response of POST
    chunkLoop,          \* chunkArray(array, size) step by step: array, size, i, chunks, pc
    merging,            \* a merge of partial documents: partials, by (the route), out, threw
    db,                 \* the tables study_materials, flashcards, quizzes, hashtags
    posts,              \* the POST requests of the cached route, one record each
    transcript          \* a call of getVideoTranscript: position, lang, requests, outcome

chunkVars == <<content, chunkSize, concurrencyLimit, contentChunks, chunks, pc>>
chunkData == <<content, chunkSize, concurrencyLimit, contentChunks, chunks>>
retryVars == <<maxRetries, initialDelay, retries, calls, waits, outcomes, rpc, rerr>>
retryRest == <<maxRetries, initialDelay, retries, calls, outcomes, rpc, rerr>>
repairVars == <<rawText, repaired, spc>>
runVars == <<group, tasks, allResponses, combinedMaterials, storeCalls, response>>
cacheVars == <<db, posts>>
auxVars == <<chunkLoop, merging, cacheVars, transcript>>
vars == <<chunkVars, retryVars, repairVars, runVars, auxVars>>

(***************************************************************************)
(* Characters.  The regular expression atom "." matches every character    *)
(* except the line terminators.                                            *)
(***************************************************************************)
LineTerminators == {"\n", "\r"}
ContentAlphabet == {"a", ".", "\n"}

Min(a, b) == IF a < b THEN a ELSE b

RECURSIVE SeqsUpTo(_, _)
SeqsUpTo(S, n) ==
    IF n = 0 THEN {<<>>}
    ELSE LET shorter == SeqsUpTo(S, n - 1)
         IN shorter \cup {Append(s, x) : s \in shorter, x \in S}

RECURSIVE Flatten(_)
Flatten(ss) == IF ss = <<>> THEN <<>> ELSE Head(ss) \o Flatten(Tail(ss))

(***************************************************************************)
(* content.match(new RegExp(`.{1,${chunkSize}}`, 'g')) || []               *)
(* The global match scans left to right; at each position it takes the     *)
(* longest run of at most chunkSize characters matched by ".", and where   *)
(* no character matches it moves one position on.                          *)
(***************************************************************************)
RECURSIVE DotRun(_, _)
DotRun(s, max) ==
    IF s = <<>> \/ max = 0 \/ Head(s) \in LineTerminators THEN 0
    ELSE 1 + DotRun(Tail(s), max - 1)

RECURSIVE RegexMatchAll(_, _)
RegexMatchAll(s, size) ==
    IF s = <<>> THEN <<>>
    ELSE LET n == DotRun(s, size)
         IN IF n = 0 THEN RegexMatchAll(Tail(s), size)
            ELSE <<SubSeq(s, 1, n)>> \o RegexMatchAll(SubSeq(s, n + 1, Len(s)), size)

(***************************************************************************)
(* chunkArray(array, size): slices of size elements, from index 0.         *)
(***************************************************************************)
chunkArrayWhole(array, size) == IF array = <<>> THEN <<>> ELSE <<array>>

RECURSIVE chunkArray(_, _)
chunkArray(array, size) ==
    IF array = <<>> THEN <<>>
    ELSE <<SubSeq(array, 1, Min(size, Len(array)))>>
         \o chunkArray(SubSeq(array, Min(size, Len(array)) + 1, Len(array)), size)

(***************************************************************************)
(* The chunker, as a pure function applied to bounded inputs.              *)
(***************************************************************************)
ChunkerOff ==
    /\ content = <<>>
    /\ chunkSize = 1
    /\ concurrencyLimit = 1
    /\ contentChunks = <<>>
    /\ chunks = <<>>
    /\ pc = "off"

RetryOff ==
    /\ maxRetries = 0
    /\ initialDelay = 0
    /\ retries = 0
    /\ calls = 0
    /\ waits = <<>>
    /\ outcomes = <<>>
    /\ rpc = "off"
    /\ rerr = 0

RepairOff ==
    /\ rawText = <<>>
    /\ repaired = [ok |-> FALSE, doc |-> [t |-> "undef"], stage |-> 0]
    /\ spc = "off"

NoResponse == [status |-> 0, error |-> "", body |-> [t |-> "undef"]]

RunOff ==
    /\ group = 0
    /\ tasks = <<>>
    /\ allResponses = <<>>
    /\ combinedMaterials = [t |-> "undef"]
    /\ storeCalls = <<>>
    /\ response = NoResponse

\* the content "A.B.C."
ExampleContent == <<"A", ".", "B", ".", "C", ".">>

\* chunkArray is not running
LoopOff == chunkLoop = [array |-> <<>>, size |-> 1, i |-> 0, chunks |-> <<>>, pc |-> "off"]

\* no merge is running
MergeOff == merging = [partials |-> <<>>, by |-> "off", out |-> [t |-> "undef"], threw |-> FALSE]

\* the cached route is not serving
EmptyDb == [materials |-> <<>>, flashcards |-> {}, quizzes |-> {}, hashtags |-> {}]
CacheOff == db = EmptyDb /\ posts = <<>>

\* getVideoTranscript is not running
TranscriptOff ==
    transcript = [pc |-> "off", videoId |-> "", answers |-> <<>>, lang |-> "",
                  requests |-> 0, returned |-> <<>>, error |-> ""]

AuxOff == LoopOff /\ MergeOff /\ CacheOff /\ TranscriptOff

InitChunker ==
    /\ RetryOff
    /\ RepairOff
    /\ RunOff
    /\ AuxOff
    /\ content \in SeqsUpTo(ContentAlphabet, MaxContentLen) \cup {ExampleContent}
    /\ chunkSize \in 1..MaxChunkLen
    /\ concurrencyLimit \in 1..MaxBatch
    /\ contentChunks = <<>>
    /\ chunks = <<>>
    /\ pc = "start"

SplitContent ==
    /\ pc = "start"
    /\ contentChunks' = RegexMatchAll(content, chunkSize)
    /\ chunks' = chunkArray(RegexMatchAll(content, chunkSize), concurrencyLimit)
    /\ pc' = "split"
    /\ UNCHANGED <<content, chunkSize, concurrencyLimit>>
    /\ UNCHANGED <<retryVars, repairVars, runVars, auxVars>>

NextChunker == SplitContent

SpecChunker == InitChunker /\ [][NextChunker]_vars

\* C1: concatenating the chunks in order gives back the content exactly, and
\* every chunk has length at most chunkSize.
ChunksReconstructContent ==
    pc = "split" =>
        /\ Flatten(contentChunks) = content
        /\ \A k \in 1..Len(contentChunks) : Len(contentChunks[k]) <= chunkSize

(***************************************************************************)
(* retryWithBackoff(fn, maxRetries, initialDelay).                         *)
(* fn is the provider call; each call settles with "ok" or with an error   *)
(* carrying an HTTP status.                                                *)
(***************************************************************************)
RECURSIVE Pow2(_)
Pow2(n) == IF n = 0 THEN 1 ELSE 2 * Pow2(n - 1)

ErrorStatuses == {RateLimitStatus, ServerErrorStatus, OtherErrorStatus}
InitialDelays == {DefaultInitialDelay, DefaultInitialDelay \div 10}

\* if (retries > maxRetries) throw error
RetriesExceededOffByOne(r, m) == r >= m
RetriesExceeded(r, m) == r > m

\* waitTime = initialDelay * Math.pow(2, retries - 1)
RateLimitWaitLinear(d, r) == d * r
RateLimitWait(d, r) == d * Pow2(r - 1)

\* an error that is neither a rate limit nor a server error is rethrown
RetryableAny(status) == status # 0
Retryable(status) == status \in {RateLimitStatus, ServerErrorStatus}

WaitTimeBackoff(d, r, status) == RateLimitWait(d, r)
WaitTime(d, r, status) ==
    IF status = RateLimitStatus THEN RateLimitWait(d, r) ELSE ServerErrorDelay

InitRetry ==
    /\ ChunkerOff
    /\ RepairOff
    /\ RunOff
    /\ AuxOff
    /\ maxRetries \in 0..MaxRetriesArg
    /\ initialDelay \in InitialDelays
    /\ retries = 0
    /\ calls = 1
    /\ waits = <<>>
    /\ outcomes = <<>>
    /\ rpc = "call"
    /\ rerr = 0

\* return await fn()
FnReturns ==
    /\ rpc = "call"
    /\ rpc' = "returned"
    /\ outcomes' = Append(outcomes, 0)
    /\ UNCHANGED <<maxRetries, initialDelay, retries, calls, waits, rerr>>
    /\ UNCHANGED <<chunkVars, repairVars, runVars, auxVars>>

\* catch (error): fn threw an error with the given status
FnThrows(status) ==
    /\ rpc = "call"
    /\ outcomes' = Append(outcomes, status)
    /\ retries' = retries + 1
    /\ IF RetriesExceeded(retries + 1, maxRetries) \/ ~Retryable(status)
       THEN /\ rpc' = "thrown"
            /\ rerr' = status
            /\ waits' = waits
       ELSE /\ rpc' = "wait"
            /\ rerr' = rerr
            /\ waits' = Append(waits, WaitTime(initialDelay, retries + 1, status))
    /\ UNCHANGED <<maxRetries, initialDelay, calls>>
    /\ UNCHANGED <<chunkVars, repairVars, runVars, auxVars>>

\* await delay(waitTime); the loop calls fn again
RetryDelayElapsed ==
    /\ rpc = "wait"
    /\ rpc' = "call"
    /\ calls' = calls + 1
    /\ UNCHANGED <<maxRetries, initialDelay, retries, waits, outcomes, rerr>>
    /\ UNCHANGED <<chunkVars, repairVars, runVars, auxVars>>

NextRetry ==
    \/ FnReturns
    \/ \E status \in ErrorStatuses : FnThrows(status)
    \/ RetryDelayElapsed

SpecRetry == InitRetry /\ [][NextRetry]_vars

AlwaysRateLimited ==
    /\ outcomes # <<>>
    /\ \A k \in 1..Len(outcomes) : outcomes[k] = RateLimitStatus

\* C4: with maxRetries = N and a provider that always answers 429, the client
\* performs exactly N retries (N+1 provider calls) and then fails with the
\* rate-limit error; the delay before the n-th retry is initialDelay * 2^(n-1).
RateLimitedRetriesExactlyMax ==
    /\ (AlwaysRateLimited /\ rpc = "thrown") =>
          /\ calls = maxRetries + 1
          /\ rerr = RateLimitStatus
          /\ Len(waits) = maxRetries
    /\ AlwaysRateLimited =>
          /\ rpc # "returned"
          /\ \A n \in 1..Len(waits) : waits[n] = initialDelay * Pow2(n - 1)
          /\ Len(waits) \in {calls - 1, calls}

RateLimitedRetriesWitness ==
    /\ AlwaysRateLimited
    /\ rpc = "thrown"
    /\ maxRetries = 3
    /\ waits = <<initialDelay, 2 * initialDelay, 4 * initialDelay>>

(***************************************************************************)
(* JSON values, as JSON.parse builds them.  Every value is a record with   *)
(* the JavaScript type t and a payload field named after the type.         *)
(*   "str"   s = the lexemes between the quotes                            *)
(*   "num"   n = <<the literal>>                                           *)
(*   "arr"   a = the elements                                              *)
(*   "obj"   o = the properties [k, v] in insertion order                  *)
(*   "undef" the value of a missing property                               *)
(***************************************************************************)
Q == "\""
WhiteSpace == {" ", "\n", "\r"}
NumberWords == {"5"}
KeyWords == {"summary", "flashcards", "quiz", "question", "answer", "options",
             "correctAnswer", "difficulty"}
IdentifierWords == KeyWords \cup {"s1", "s2", "q1", "q2", "a1", "a2", "o1", "o2",
                                  "o3", "o4", "easy", "medium", "json", "Here"}

Str(s) == [t |-> "str", s |-> s]
Num(w) == [t |-> "num", n |-> <<w>>]
Arr(xs) == [t |-> "arr", a |-> xs]
Obj(ps) == [t |-> "obj", o |-> ps]
Undefined == [t |-> "undef"]

At(text, i) == IF i >= 1 /\ i <= Len(text) THEN text[i] ELSE ""

RECURSIVE SkipWs(_, _)
SkipWs(text, i) ==
    IF At(text, i) \in WhiteSpace THEN SkipWs(text, i + 1) ELSE i

\* obj[key]: the property's value, undefined when absent or when obj is no object
HasKey(obj, key) ==
    obj.t = "obj" /\ \E n \in 1..Len(obj.o) : obj.o[n].k = key

Get(obj, key) ==
    IF HasKey(obj, key)
    THEN obj.o[CHOOSE n \in 1..Len(obj.o) : obj.o[n].k = key].v
    ELSE Undefined

\* obj[key] = val: replaces the property in place, or appends it
PutPair(ps, key, val) ==
    IF \E n \in 1..Len(ps) : ps[n].k = key
    THEN [n \in 1..Len(ps) |-> IF ps[n].k = key THEN [k |-> key, v |-> val] ELSE ps[n]]
    ELSE Append(ps, [k |-> key, v |-> val])

Put(obj, key, val) == Obj(PutPair(obj.o, key, val))

(***************************************************************************)
(* JSON.parse(text).  A parse result is [ok, val, n]: n is the index of    *)
(* the first lexeme after the value.                                       *)
(***************************************************************************)
ParseFail == [ok |-> FALSE, val |-> Undefined, n |-> 0]
ParseOk(val, n) == [ok |-> TRUE, val |-> val, n |-> n]

\* index of the closing quote of the string opened before i, 0 when a line
\* terminator or the end of the text comes first
RECURSIVE ClosingQuote(_, _)
ClosingQuote(text, i) ==
    IF i > Len(text) \/ text[i] \in LineTerminators THEN 0
    ELSE IF text[i] = Q THEN i
    ELSE ClosingQuote(text, i + 1)

ParseString(text, i) ==
    LET c == ClosingQuote(text, i + 1)
    IN IF At(text, i) = Q /\ c > 0
       THEN ParseOk(Str(SubSeq(text, i + 1, c - 1)), c + 1)
       ELSE ParseFail

RECURSIVE ParseValue(_, _)
RECURSIVE ParseElements(_, _, _)
RECURSIVE ParseMembers(_, _, _)

\* text[i] is the first lexeme of an element (white space skipped)
ParseElements(text, i, acc) ==
    LET e == ParseValue(text, i)
        j == SkipWs(text, e.n)
    IN IF ~e.ok THEN ParseFail
       ELSE IF At(text, j) = "," THEN ParseElements(text, SkipWs(text, j + 1), Append(acc, e.val))
       ELSE IF At(text, j) = "]" THEN ParseOk(Arr(Append(acc, e.val)), j + 1)
       ELSE ParseFail

\* text[i] is the first lexeme of a member (white space skipped)
ParseMembers(text, i, acc) ==
    LET key == ParseString(text, i)
        c == SkipWs(text, key.n)
        m == ParseValue(text, SkipWs(text, c + 1))
        j == SkipWs(text, m.n)
    IN IF ~key.ok \/ At(text, c) # ":" THEN ParseFail
       ELSE IF ~m.ok THEN ParseFail
       ELSE IF At(text, j) = ","
            THEN ParseMembers(text, SkipWs(text, j + 1), PutPair(acc, key.val.s, m.val))
       ELSE IF At(text, j) = "}" THEN ParseOk(Obj(PutPair(acc, key.val.s, m.val)), j + 1)
       ELSE ParseFail

ParseValue(text, i) ==
    LET c == At(text, i)
    IN IF c = Q THEN ParseString(text, i)
       ELSE IF c \in NumberWords THEN ParseOk(Num(c), i + 1)
       ELSE IF c = "["
            THEN IF At(text, SkipWs(text, i + 1)) = "]"
                 THEN ParseOk(Arr(<<>>), SkipWs(text, i + 1) + 1)
                 ELSE ParseElements(text, SkipWs(text, i + 1), <<>>)
       ELSE IF c = "{"
            THEN IF At(text, SkipWs(text, i + 1)) = "}"
                 THEN ParseOk(Obj(<<>>), SkipWs(text, i + 1) + 1)
                 ELSE ParseMembers(text, SkipWs(text, i + 1), <<>>)
       ELSE ParseFail

\* JSON.parse: one value, white space around it, nothing else
JSONParse(text) ==
    LET p == ParseValue(text, SkipWs(text, 1))
    IN IF p.ok /\ SkipWs(text, p.n) = Len(text) + 1 THEN p ELSE ParseFail

(***************************************************************************)
(* The text transformations of sanitizeAndParseJSON.  Each models one      *)
(* String.prototype.replace with a global regular expression: the text is  *)
(* scanned left to right and matches do not overlap.                       *)
(***************************************************************************)
ScriptOpen == "<script>"
ScriptClose == "</script>"

SetMin(S) == CHOOSE x \in S : \A y \in S : x <= y
SetMax(S) == CHOOSE x \in S : \A y \in S : x >= y

\* text.indexOf(c, from) and text.lastIndexOf(c), 1-based; 0 is JavaScript's -1
IndexFrom(text, c, from) ==
    LET found == {i \in from..Len(text) : text[i] = c}
    IN IF found = {} THEN 0 ELSE SetMin(found)

LastIndexOf(text, c) ==
    LET found == {i \in 1..Len(text) : text[i] = c}
    IN IF found = {} THEN 0 ELSE SetMax(found)

\* text.replace(regexp, replacement) with a global regexp: the leftmost match
\* at or after `from` is replaced and the scan resumes after it.  matchEnd[p]
\* is the index of the last lexeme of the match that starts at p, 0 when no
\* match starts there; replacement[p] is what that match is replaced by.
RECURSIVE ReplaceAll(_, _, _, _)
ReplaceAll(text, matchEnd, replacement, from) ==
    LET starts == {p \in from..Len(text) : matchEnd[p] # 0}
        p == SetMin(starts)
    IN IF starts = {} THEN SubSeq(text, from, Len(text))
       ELSE SubSeq(text, from, p - 1) \o replacement[p]
            \o ReplaceAll(text, matchEnd, replacement, matchEnd[p] + 1)

\* .replace(/<script\b[^<]*(?:(?!<\/script>)<[^<]*)*<\/script>/gi, '')
ScriptMatchEnd(text, p) ==
    IF text[p] = ScriptOpen THEN IndexFrom(text, ScriptClose, p + 1) ELSE 0

RemoveScripts(text) ==
    ReplaceAll(text, [p \in 1..Len(text) |-> ScriptMatchEnd(text, p)],
               [p \in 1..Len(text) |-> <<>>], 1)

RECURSIVE SkipLineTerminators(_, _)
SkipLineTerminators(text, i) ==
    IF At(text, i) \in LineTerminators THEN SkipLineTerminators(text, i + 1) ELSE i

\* .replace(/(["\]}])[\n\r]+(["\[{])/g, '$1,$2')
MissingCommaMatchEnd(text, p) ==
    LET j == SkipLineTerminators(text, p + 1)
    IN IF text[p] \in {Q, "]", "}"} /\ j > p + 1 /\ At(text, j) \in {Q, "[", "{"}
       THEN j ELSE 0

InsertCommas(text) ==
    ReplaceAll(text, [p \in 1..Len(text) |-> MissingCommaMatchEnd(text, p)],
               [p \in 1..Len(text) |->
                   <<text[p], ",", At(text, SkipLineTerminators(text, p + 1))>>], 1)

\* .replace(/,(\s*[}\]])/g, '$1')
TrailingCommaMatchEnd(text, p) ==
    LET j == SkipWs(text, p + 1)
    IN IF text[p] = "," /\ At(text, j) \in {"}", "]"} THEN j ELSE 0

RemoveTrailingCommas(text) ==
    ReplaceAll(text, [p \in 1..Len(text) |-> TrailingCommaMatchEnd(text, p)],
               [p \in 1..Len(text) |-> SubSeq(text, p + 1, SkipWs(text, p + 1))], 1)

\* const jsonStart = cleanText.indexOf('{');
\* if (jsonStart !== -1) cleanText = cleanText.substring(jsonStart);
FromJsonStart(text) ==
    LET jsonStart == IndexFrom(text, "{", 1)
    IN IF jsonStart # 0 THEN SubSeq(text, jsonStart, Len(text)) ELSE text

\* const jsonEnd = cleanText.lastIndexOf('}');
\* if (jsonEnd !== -1) cleanText = cleanText.substring(0, jsonEnd + 1);
ToJsonEnd(text) ==
    LET jsonEnd == LastIndexOf(text, "}")
    IN IF jsonEnd # 0 THEN SubSeq(text, 1, jsonEnd) ELSE text

\* the cleanText of the second attempt
CleanText(text) == ToJsonEnd(FromJsonStart(RemoveTrailingCommas(InsertCommas(RemoveScripts(text)))))

\* .replace(/([{,]\s*)([a-zA-Z_][a-zA-Z0-9_]*)(\s*:)/g, '$1"$2"$3')
IdentifierKeyMatchEnd(text, p) ==
    LET j == SkipWs(text, p + 1)
        m == SkipWs(text, j + 1)
    IN IF text[p] \in {"{", ","} /\ At(text, j) \in IdentifierWords /\ At(text, m) = ":"
       THEN m ELSE 0

QuoteIdentifierKeys(text) ==
    ReplaceAll(text, [p \in 1..Len(text) |-> IdentifierKeyMatchEnd(text, p)],
               [p \in 1..Len(text) |->
                   LET j == SkipWs(text, p + 1)
                   IN SubSeq(text, p, j - 1) \o <<Q, At(text, j), Q>>
                      \o SubSeq(text, j + 1, SkipWs(text, j + 1))], 1)

\* last index of the run of [^:\s] lexemes that starts after index j
RECURSIVE RunEnd(_, _)
RunEnd(text, j) ==
    IF j + 1 <= Len(text) /\ text[j + 1] \notin WhiteSpace /\ text[j + 1] # ":"
    THEN RunEnd(text, j + 1)
    ELSE j

\* .replace(/([{,]\s*)([^"\s][^:\s]*)(\s*:)/g, '$1"$2"$3')
BareKeyMatchEnd(text, p) ==
    LET j == SkipWs(text, p + 1)
        m == SkipWs(text, RunEnd(text, j) + 1)
    IN IF text[p] \in {"{", ","} /\ j <= Len(text) /\ text[j] # Q /\ At(text, m) = ":"
       THEN m ELSE 0

QuoteBareKeys(text) ==
    ReplaceAll(text, [p \in 1..Len(text) |-> BareKeyMatchEnd(text, p)],
               [p \in 1..Len(text) |->
                   LET j == SkipWs(text, p + 1)
                       k == RunEnd(text, j)
                   IN SubSeq(text, p, j - 1) \o <<Q>> \o SubSeq(text, j, k) \o <<Q>>
                      \o SubSeq(text, k + 1, SkipWs(text, k + 1))], 1)

\* the cleanText of the last attempt
AggressiveCleanText(clean) == QuoteBareKeys(QuoteIdentifierKeys(clean))

(***************************************************************************)
(* JavaScript operations on parsed values.                                 *)
(***************************************************************************)
Key(word) == <<word>>

IsArray(x) == x.t = "arr"
IsString(x) == x.t = "str"

\* !!x
Truthy(x) ==
    CASE x.t = "undef" -> FALSE
      [] x.t = "str" -> x.s # <<>>
      [] x.t = "num" -> x.n # <<"0">>
      [] OTHER -> TRUE

RECURSIVE JsString(_)
RECURSIVE JoinStrings(_)
JoinStrings(xs) ==
    IF xs = <<>> THEN <<>>
    ELSE IF Len(xs) = 1 THEN JsString(xs[1])
    ELSE JsString(xs[1]) \o <<",">> \o JoinStrings(Tail(xs))

\* String(x)
JsString(x) ==
    CASE x.t = "str" -> x.s
      [] x.t = "num" -> x.n
      [] x.t = "arr" -> JoinStrings(x.a)
      [] x.t = "obj" -> <<"[object Object]">>
      [] OTHER -> <<"undefined">>

\* s.trim()
RECURSIVE TrimStart(_)
TrimStart(s) == IF s # <<>> /\ Head(s) \in WhiteSpace THEN TrimStart(Tail(s)) ELSE s

RECURSIVE TrimEnd(_)
TrimEnd(s) ==
    IF s # <<>> /\ s[Len(s)] \in WhiteSpace THEN TrimEnd(SubSeq(s, 1, Len(s) - 1)) ELSE s

Trim(s) == TrimEnd(TrimStart(s))

MapSeq(s, F(_)) == [n \in 1..Len(s) |-> F(s[n])]

\* !parsed.summary || !Array.isArray(parsed.summary) || ... : throw
ValidStructure(parsed) ==
    /\ Truthy(Get(parsed, Key("summary"))) /\ IsArray(Get(parsed, Key("summary")))
    /\ Truthy(Get(parsed, Key("flashcards"))) /\ IsArray(Get(parsed, Key("flashcards")))
    /\ Truthy(Get(parsed, Key("quiz"))) /\ IsArray(Get(parsed, Key("quiz")))

\* parsed.summary.map(item => String(item).trim()).filter(Boolean)
CleanSummary(summary) ==
    SelectSeq(MapSeq(summary, LAMBDA item : Str(Trim(JsString(item)))), Truthy)

\* card && typeof card.question === 'string' && typeof card.answer === 'string'
KeepCard(card) ==
    /\ Truthy(card)
    /\ IsString(Get(card, Key("question")))
    /\ IsString(Get(card, Key("answer")))

CleanCard(card) ==
    Obj(<<[k |-> Key("question"), v |-> Str(Trim(Get(card, Key("question")).s))],
          [k |-> Key("answer"), v |-> Str(Trim(Get(card, Key("answer")).s))]>>)

CleanFlashcards(flashcards) == MapSeq(SelectSeq(flashcards, KeepCard), CleanCard)

\* q && typeof q.question === 'string' && Array.isArray(q.options)
\*   && typeof q.correctAnswer === 'string'
KeepQuiz(q) ==
    /\ Truthy(q)
    /\ IsString(Get(q, Key("question")))
    /\ IsArray(Get(q, Key("options")))
    /\ IsString(Get(q, Key("correctAnswer")))

CleanQuizEntry(q) ==
    Obj(<<[k |-> Key("question"), v |-> Str(Trim(Get(q, Key("question")).s))],
          [k |-> Key("options"),
           v |-> Arr(MapSeq(Get(q, Key("options")).a, LAMBDA opt : Str(Trim(JsString(opt)))))],
          [k |-> Key("correctAnswer"), v |-> Str(Trim(Get(q, Key("correctAnswer")).s))],
          [k |-> Key("difficulty"),
           v |-> IF Truthy(Get(q, Key("difficulty")))
                 THEN Get(q, Key("difficulty")) ELSE Str(<<"medium">>)]>>)

CleanQuiz(quiz) == MapSeq(SelectSeq(quiz, KeepQuiz), CleanQuizEntry)

\* lines 85-103: the three arrays are replaced in place, other properties stay
CleanParsed(parsed) ==
    Put(Put(Put(parsed,
                Key("summary"), Arr(CleanSummary(Get(parsed, Key("summary")).a))),
            Key("flashcards"), Arr(CleanFlashcards(Get(parsed, Key("flashcards")).a))),
        Key("quiz"), Arr(CleanQuiz(Get(parsed, Key("quiz")).a)))

(***************************************************************************)
(* sanitizeAndParseJSON(text): [ok, doc, stage], stage the attempt that    *)
(* returned (1 direct, 2 cleaned, 3 aggressively cleaned); ok = FALSE is   *)
(* the thrown Error('Failed to process AI response').                      *)
(***************************************************************************)
RepairFail == [ok |-> FALSE, doc |-> Undefined, stage |-> 0]
RepairOk(doc, stage) == [ok |-> TRUE, doc |-> doc, stage |-> stage]

\* line 47: return JSON.parse(text)
DirectParse(p) == RepairOk(p.val, 1)

\* lines 118-127: parse, validate, return finalParsed
FinalParse(clean) ==
    LET finalParsed == JSONParse(AggressiveCleanText(clean))
    IN IF finalParsed.ok /\ ValidStructure(finalParsed.val)
       THEN RepairOk(finalParsed.val, 3)
       ELSE RepairFail

\* lines 73-105: parse the cleaned text, validate, trim and filter
CleanedParse(clean) ==
    LET parsed == JSONParse(clean)
    IN IF parsed.ok /\ ValidStructure(parsed.val)
       THEN RepairOk(CleanParsed(parsed.val), 2)
       ELSE FinalParse(clean)

sanitizeAndParseJSON(text) ==
    LET first == JSONParse(text)
    IN IF first.ok THEN DirectParse(first) ELSE CleanedParse(CleanText(text))

(***************************************************************************)
(* Provider responses.  The prompt (generatePrompt) asks for one JSON      *)
(* object with summary, flashcards and quiz; the model may answer with     *)
(* entries of the wrong shape, with missing arrays, with invalid JSON      *)
(* syntax, or with the object wrapped in a code fence or in prose.         *)
(***************************************************************************)
Prop(word, val) == [k |-> Key(word), v |-> val]
Word(w) == Str(<<w>>)

Card(question, answer) == Obj(<<Prop("question", question), Prop("answer", answer)>>)

FourOptions == Arr(<<Word("o1"), Word("o2"), Word("o3"), Word("o4")>>)
ThreeOptions == Arr(<<Word("o1"), Word("o2"), Word("o3")>>)

QuizEntry(question, options, correctAnswer) ==
    Obj(<<Prop("question", question), Prop("options", options),
          Prop("correctAnswer", correctAnswer), Prop("difficulty", Word("easy"))>>)

CardEntries ==
    { Card(Word("q1"), Word("a1")),
      Card(Str(<<" ", "q1">>), Word("a2")),
      Card(Word("q2"), Num("5")) }

QuizEntries ==
    { QuizEntry(Word("q1"), FourOptions, Word("o1")),
      QuizEntry(Word("q2"), FourOptions, Word("a1")),
      QuizEntry(Word("q1"), ThreeOptions, Str(<<"o2", " ">>)),
      Obj(<<Prop("question", Word("q2")), Prop("options", FourOptions)>>) }

Summaries == { <<Word("s1")>>, <<Str(<<"s1", " ">>), Word("s2"), Num("5")>> }

StudyObject(summary, flashcards, quiz) ==
    Obj(<<Prop("summary", Arr(summary)), Prop("flashcards", Arr(flashcards)),
          Prop("quiz", Arr(quiz))>>)

ResponseValues ==
    { StudyObject(s, f, q) : s \in Summaries, f \in SeqsUpTo(CardEntries, MaxCards),
                             q \in SeqsUpTo(QuizEntries, MaxQuiz) }
    \cup { Obj(<<Prop("summary", Arr(s)), Prop("quiz", Arr(q))>>) :
              s \in Summaries, q \in SeqsUpTo(QuizEntries, MaxQuiz) }
    \cup { Obj(<<Prop("summary", Word("s1")), Prop("flashcards", Arr(<<>>)),
                 Prop("quiz", Arr(<<>>))>>),
           Obj(<<>>), Arr(<<>>), Arr(<<Word("s1")>>), Num("5"), Word("s1"),
           Arr(<<StudyObject(<<Word("s1")>>, <<>>, <<>>)>>) }

\* The text of a value.  bare: property names without quotes; trailing: a comma
\* before each closing bracket; lines: elements separated by a line break
\* instead of a comma.
Style(bare, trailing, lines) == [bare |-> bare, trailing |-> trailing, lines |-> lines]

RECURSIVE Render(_, _)
RECURSIVE RenderElements(_, _)
RECURSIVE RenderMembers(_, _)

Separator(style) == IF style.lines THEN <<"\n">> ELSE <<",">>
Closing(style) == IF style.trailing THEN <<",">> ELSE <<>>

RenderElements(items, style) ==
    IF items = <<>> THEN <<>>
    ELSE IF Len(items) = 1 THEN Render(items[1], style) \o Closing(style)
    ELSE Render(items[1], style) \o Separator(style) \o RenderElements(Tail(items), style)

RenderMember(pair, style) ==
    (IF style.bare THEN pair.k ELSE <<Q>> \o pair.k \o <<Q>>)
    \o <<":">> \o Render(pair.v, style)

RenderMembers(pairs, style) ==
    IF pairs = <<>> THEN <<>>
    ELSE IF Len(pairs) = 1 THEN RenderMember(pairs[1], style) \o Closing(style)
    ELSE RenderMember(pairs[1], style) \o Separator(style) \o RenderMembers(Tail(pairs), style)

Render(val, style) ==
    CASE val.t = "str" -> <<Q>> \o val.s \o <<Q>>
      [] val.t = "num" -> val.n
      [] val.t = "arr" -> <<"[">> \o RenderElements(val.a, style) \o <<"]">>
      [] val.t = "obj" -> <<"{">> \o RenderMembers(val.o, style) \o <<"}">>

\* CodeFence stands for the three-backquote lexeme of a markdown code block
CodeFence == "~~~"
Fenced(text) == <<CodeFence, "json", "\n">> \o text \o <<"\n", CodeFence>>
InProse(text) == <<"Here", " ">> \o text \o <<" ", ScriptOpen, "{", ScriptClose>>

ResponseTexts ==
    { Render(val, Style(FALSE, FALSE, FALSE)) : val \in ResponseValues }
    \cup { Fenced(Render(val, Style(FALSE, FALSE, FALSE))) : val \in ResponseValues }
    \cup { InProse(Render(val, Style(FALSE, FALSE, FALSE))) : val \in ResponseValues }
    \cup { Render(val, Style(TRUE, FALSE, FALSE)) : val \in ResponseValues }
    \cup { Render(val, Style(FALSE, TRUE, FALSE)) : val \in ResponseValues }
    \cup { Render(val, Style(FALSE, FALSE, TRUE)) : val \in ResponseValues }
    \cup { Fenced(Render(val, Style(TRUE, TRUE, TRUE))) : val \in ResponseValues }
    \cup { <<>>, <<"Here">>, <<"Here", " ", "{">>, <<"}", "Here", "{">> }

(***************************************************************************)
(* The repair cascade, as a pure function applied to the response texts.   *)
(***************************************************************************)
InitRepair ==
    /\ ChunkerOff
    /\ RetryOff
    /\ RunOff
    /\ AuxOff
    /\ rawText \in ResponseTexts
    /\ repaired = RepairFail
    /\ spc = "raw"

Sanitize ==
    /\ spc = "raw"
    /\ repaired' = sanitizeAndParseJSON(rawText)
    /\ spc' = "done"
    /\ UNCHANGED rawText
    /\ UNCHANGED <<chunkVars, retryVars, runVars, auxVars>>

NextRepair == Sanitize

SpecRepair == InitRepair /\ [][NextRepair]_vars

ReturnedDoc == spc = "done" /\ repaired.ok

\* C8: every document the repair cascade returns passes schema validation,
\* whichever stage produced it: summary, flashcards and quiz are present and
\* are arrays.
RepairedDocsAreValid ==
    ReturnedDoc => ValidStructure(repaired.doc)

QuizEntryWellFormed(q) ==
    /\ IsArray(Get(q, Key("options")))
    /\ Len(Get(q, Key("options")).a) = 4
    /\ IsString(Get(q, Key("correctAnswer")))
    /\ \E n \in 1..Len(Get(q, Key("options")).a) :
          Get(q, Key("options")).a[n] = Get(q, Key("correctAnswer"))

QuizOf(doc) == IF IsArray(Get(doc, Key("quiz"))) THEN Get(doc, Key("quiz")).a ELSE <<>>

\* C9: every quiz entry of every returned document has exactly 4 options and a
\* correctAnswer equal to one of them.
RepairedQuizAnswersAmongOptions ==
    ReturnedDoc => \A n \in 1..Len(QuizOf(repaired.doc)) :
                      QuizEntryWellFormed(QuizOf(repaired.doc)[n])

(***************************************************************************)
(* The merger: lines 213-233 of generateStudyMaterials.                    *)
(***************************************************************************)
\* ...x inside push(): arrays spread their elements, strings their characters
Spreadable(x) == x.t \in {"arr", "str"}
Spread(x) == IF x.t = "arr" THEN x.a ELSE MapSeq(x.s, LAMBDA c : Str(<<c>>))

\* if (response[key]) combinedMaterials[key].push(...response[key])
Pushed(resp, key) ==
    IF Truthy(Get(resp, key)) THEN Spread(Get(resp, key)) ELSE <<>>

PushThrows(resp, key) == Truthy(Get(resp, key)) /\ ~Spreadable(Get(resp, key))

Collected(resps, key) == Flatten(MapSeq(resps, LAMBDA resp : Pushed(resp, key)))

\* a === b, and the SameValueZero of Set, on parsed values: strings and numbers
\* by value, arrays and objects by identity (two parsed objects are never the same)
StrictEquals(a, b) == a.t \in {"str", "num", "undef"} /\ a = b

\* the elements of xs at the indices Keep accepts, in order
Kept(xs, Keep(_)) ==
    LET idx == {k \in 1..Len(xs) : Keep(k)}
    IN [m \in 1..Cardinality(idx) |->
           xs[CHOOSE k \in idx : Cardinality({k2 \in idx : k2 <= k}) = m]]

\* self.findIndex(c => c.question === card.question), on the sequence of the
\* questions of self (an object or array question is found only at itself)
FindLastIndex(keys, k) ==
    SetMax({k2 \in 1..Len(keys) : k2 = k \/ StrictEquals(keys[k2], keys[k])})
FindIndex(keys, k) ==
    SetMin({k2 \in 1..Len(keys) : k2 = k \/ StrictEquals(keys[k2], keys[k])})

\* xs.filter((x, index, self) => index === self.findIndex(...))
DedupBy(xs, KeyOf(_)) ==
    LET keys == MapSeq(xs, KeyOf)
    IN Kept(xs, LAMBDA k : k = FindIndex(keys, k))

QuestionOf(entry) == Get(entry, Key("question"))
Itself(x) == x

\* Array.from(new Set(summary))
DedupSummary(summary) == DedupBy(summary, Itself)

MergeThrows(resps) ==
    \E n \in 1..Len(resps) : \E word \in {"summary", "flashcards", "quiz"} :
        PushThrows(resps[n], Key(word))

Merge(resps) ==
    Obj(<<Prop("summary", Arr(DedupSummary(Collected(resps, Key("summary"))))),
          Prop("flashcards", Arr(DedupBy(Collected(resps, Key("flashcards")), QuestionOf))),
          Prop("quiz", Arr(DedupBy(Collected(resps, Key("quiz")), QuestionOf)))>>)

(***************************************************************************)
(* The generation client: makeGenerateRequest(model, prompt, retryCount).  *)
(* A task is the chain of calls made for one chunk:                        *)
(*   st          "idle", "inflight" (awaiting model.generateContent),      *)
(*               "fulfilled" or "rejected"                                 *)
(*   retryCount  the argument retryCount of the call in progress           *)
(*   requests    provider requests issued so far                           *)
(*   malformed   responses sanitizeAndParseJSON could not repair           *)
(*   failures    provider errors received                                  *)
(*   doneAt      the rank of the chain, in order of settling, among the    *)
(*               chains of its group; 0 before it settles and once the     *)
(*               next group is dispatched                                  *)
(***************************************************************************)
\* texts the provider answers with: a document stage 1 accepts, two that need
\* the cleaning of stage 2 (the first repeats a question of the plain document
\* with another answer), and one no stage can repair
PlainDoc ==
    StudyObject(<<Word("s1")>>, <<Card(Word("q1"), Word("a1"))>>,
                <<QuizEntry(Word("q1"), FourOptions, Word("o1"))>>)
RepeatingDoc ==
    StudyObject(<<Word("s1"), Word("s2")>>,
                <<Card(Word("q2"), Word("a1")), Card(Str(<<" ", "q1">>), Word("a2"))>>,
                <<QuizEntry(Word("q1"), FourOptions, Word("o2"))>>)

PipelineTexts ==
    { Render(PlainDoc, Style(FALSE, FALSE, FALSE)),
      Fenced(Render(RepeatingDoc, Style(FALSE, TRUE, FALSE))),
      <<"Here", " ", "{">> }

\* sanitizeAndParseJSON on each of these texts
ParsedTexts == [text \in PipelineTexts |-> sanitizeAndParseJSON(text)]

NoError == [kind |-> "none", status |-> 0, message |-> ""]
ParseError == [kind |-> "parse", status |-> 0,
               message |-> "Failed to parse AI response after retries"]
ProviderError(status, message) == [kind |-> "provider", status |-> status, message |-> message]

ProviderErrors ==
    { ProviderError(RateLimitStatus, "429 Too Many Requests"),
      ProviderError(RateLimitStatus, "rate limit exceeded"),
      ProviderError(ServerErrorStatus, "500 Internal Server Error"),
      ProviderError(OtherErrorStatus, "400 Bad Request") }

IdleTask == [st |-> "idle", retryCount |-> 0, requests |-> 0, malformed |-> 0,
             failures |-> 0, doneAt |-> 0, result |-> Undefined, error |-> NoError]

\* if (retryCount < 2)
RetriesLeftOnce(retryCount) == retryCount < ParseRetryLimit - 1
RetriesLeftThrice(retryCount) == retryCount < ParseRetryLimit + 1
RetriesLeft(retryCount) == retryCount < ParseRetryLimit

\* catch (error) { throw error }: a provider error ends the chain
TaskAfterError(task, err) ==
    [task EXCEPT !.st = "rejected", !.error = err, !.failures = @ + 1]

\* the provider answered with text
TaskAfterText(task, text) ==
    LET parsed == ParsedTexts[text]
    IN IF parsed.ok
       THEN [task EXCEPT !.st = "fulfilled", !.result = parsed.doc]
       ELSE IF RetriesLeft(task.retryCount)
       THEN [task EXCEPT !.retryCount = @ + 1, !.requests = @ + 1, !.malformed = @ + 1]
       ELSE [task EXCEPT !.st = "rejected", !.error = ParseError, !.malformed = @ + 1]

\* the chain of task settles after those of ts that settled already
Settle(task, ts) ==
    IF task.st \in {"fulfilled", "rejected"}
    THEN [task EXCEPT !.doneAt = 1 + Cardinality({k \in DOMAIN ts : ts[k].doneAt > 0})]
    ELSE task

(***************************************************************************)
(* The batch orchestrator: the loop of generateStudyMaterials, and POST.   *)
(***************************************************************************)
\* indices, in contentChunks, of the chunks of chunks[g]
GroupIndices(groups, g) ==
    LET before == Len(Flatten(SubSeq(groups, 1, g - 1)))
    IN (before + 1)..(before + Len(groups[g]))

\* chunkGroup.map(async chunk => makeGenerateRequest(model, generatePrompt(chunk)));
\* the ranks of settling are those of the chains of the group being awaited
DispatchEverything(ts, groups, g) ==
    [j \in DOMAIN ts |->
        IF ts[j].st = "idle"
        THEN [ts[j] EXCEPT !.st = "inflight", !.requests = 1]
        ELSE [ts[j] EXCEPT !.doneAt = 0]]
Dispatch(ts, groups, g) ==
    [j \in DOMAIN ts |->
        IF j \in GroupIndices(groups, g)
        THEN [ts[j] EXCEPT !.st = "inflight", !.requests = 1]
        ELSE [ts[j] EXCEPT !.doneAt = 0]]

\* await Promise.all(chunkPromises)
AwaitAllSettled(ts, idx) ==
    IF \A j \in idx : ts[j].st \in {"fulfilled", "rejected"} THEN "fulfilled" ELSE "pending"
AwaitAll(ts, idx) ==
    IF \E j \in idx : ts[j].st = "rejected" THEN "rejected"
    ELSE IF \A j \in idx : ts[j].st = "fulfilled" THEN "fulfilled"
    ELSE "pending"

\* chunkResults: the results in the order of the promises
ChunkResultsAsSettled(ts, idx) ==
    LET done == {j \in idx : ts[j].st = "fulfilled"}
    IN [m \in 1..Cardinality(done) |->
           ts[CHOOSE j \in done :
                 Cardinality({k \in done : ts[k].doneAt <= ts[j].doneAt}) = m].result]
ChunkResults(ts, idx) ==
    LET done == Kept([j \in DOMAIN ts |-> j], LAMBDA j : j \in idx /\ ts[j].st = "fulfilled")
    IN MapSeq(done, LAMBDA j : ts[j].result)

\* the catch of generateStudyMaterials: error.message.includes(...)
MentionsRateLimit == {"rate limit exceeded"}
MentionsInvalidJson == {"Invalid JSON structure after cleaning"}

MapError(message) ==
    IF message \in MentionsRateLimit
    THEN "API rate limit reached. Please try again in a few minutes."
    ELSE IF message \in MentionsInvalidJson
    THEN "Error processing content. Please try with a different video."
    ELSE "Failed to generate study materials. Please try again."

\* the catch of POST: NextResponse.json({error: error.message, ...}, {status: 500})
ErrorResponse(message) == [status |-> 500, error |-> message, body |-> Undefined]
OkResponse(materials) == [status |-> 200, error |-> "", body |-> materials]

(***************************************************************************)
(* One POST of the route, from generateStudyMaterials(content) on.         *)
(*   pc  "start"      before generateStudyMaterials is called              *)
(*       "await"      in await Promise.all(chunkPromises) of chunks[group] *)
(*       "delay"      in await delay(1000) between two groups              *)
(*       "store"      in await storeStudyMaterials(...)                    *)
(*       "responded"  POST has returned its response                       *)
(***************************************************************************)
\* what getVideoTranscript resolved with: text of some length, or blank
PipelineContents == SeqsUpTo({"a"}, MaxContentLen) \cup {<<" ">>}

StoreError == "store failed"

Init ==
    /\ RetryOff /\ RepairOff /\ AuxOff
    /\ content \in PipelineContents
    /\ chunkSize \in 1..MaxChunkLen
    /\ concurrencyLimit = ConcurrencyLimit
    /\ contentChunks = <<>>
    /\ chunks = <<>>
    /\ pc = "start"
    /\ group = 0
    /\ tasks = <<>>
    /\ allResponses = <<>>
    /\ combinedMaterials = Undefined
    /\ storeCalls = <<>>
    /\ response = NoResponse

\* the loop is over: merge, return to POST, which calls storeStudyMaterials
Finish(resps) ==
    IF MergeThrows(resps)
    THEN /\ response' = ErrorResponse(MapError("not iterable"))
         /\ pc' = "responded"
         /\ UNCHANGED <<combinedMaterials, storeCalls>>
    ELSE /\ combinedMaterials' = Merge(resps)
         /\ storeCalls' = Append(storeCalls, Merge(resps))
         /\ pc' = "store"
         /\ UNCHANGED response

\* generateStudyMaterials up to its first await
StartGeneration ==
    /\ pc = "start"
    /\ LET cc == RegexMatchAll(content, chunkSize)
           groups == chunkArray(cc, concurrencyLimit)
           idle == [j \in 1..Len(cc) |-> IdleTask]
       IN /\ contentChunks' = cc
          /\ chunks' = groups
          /\ IF groups = <<>>
             THEN /\ tasks' = idle
                  /\ group' = 0
                  /\ Finish(<<>>)
             ELSE /\ tasks' = Dispatch(idle, groups, 1)
                  /\ group' = 1
                  /\ pc' = "await"
                  /\ UNCHANGED <<combinedMaterials, storeCalls, response>>
    /\ UNCHANGED <<content, chunkSize, concurrencyLimit, allResponses>>
    /\ UNCHANGED <<retryVars, repairVars, auxVars>>

\* if (i + 1 < chunks.length), i counted from 0 and g from 1
MoreGroupsNever(g, n) == FALSE
MoreGroups(g, n) == g + 1 <= n

\* what the awaiting loop does once the tasks are ts; the delays it awaits
\* are recorded in waits
Resume(ts, j) ==
    LET idx == GroupIndices(chunks, group)
        settled == AwaitAll(ts, idx)
        resps == allResponses \o ChunkResults(ts, idx)
    IN CASE pc # "await" \/ settled = "pending" ->
              UNCHANGED <<pc, allResponses, combinedMaterials, storeCalls, response, waits>>
         [] pc = "await" /\ settled = "rejected" ->
              /\ response' = ErrorResponse(MapError(ts[j].error.message))
              /\ pc' = "responded"
              /\ UNCHANGED <<allResponses, combinedMaterials, storeCalls, waits>>
         [] pc = "await" /\ settled = "fulfilled" ->
              /\ allResponses' = resps
              /\ IF MoreGroups(group, Len(chunks))
                 THEN /\ waits' = Append(waits, PacingDelay)
                      /\ pc' = "delay"
                      /\ UNCHANGED <<combinedMaterials, storeCalls, response>>
                 ELSE /\ Finish(resps)
                      /\ UNCHANGED waits

\* model.generateContent of task j resolves with text
ProviderAnswers(j, text) ==
    /\ j \in DOMAIN tasks
    /\ tasks[j].st = "inflight"
    /\ tasks' = [tasks EXCEPT ![j] = Settle(TaskAfterText(tasks[j], text), tasks)]
    /\ Resume(tasks', j)
    /\ UNCHANGED <<chunkData, group>>
    /\ UNCHANGED <<retryRest, repairVars, auxVars>>

\* model.generateContent of task j rejects with err
ProviderFails(j, err) ==
    /\ j \in DOMAIN tasks
    /\ tasks[j].st = "inflight"
    /\ tasks' = [tasks EXCEPT ![j] = Settle(TaskAfterError(tasks[j], err), tasks)]
    /\ Resume(tasks', j)
    /\ UNCHANGED <<chunkData, group>>
    /\ UNCHANGED <<retryRest, repairVars, auxVars>>

\* await delay(1000) is over: the next iteration dispatches its group
PacingDelayElapsed ==
    /\ pc = "delay"
    /\ group' = group + 1
    /\ tasks' = Dispatch(tasks, chunks, group + 1)
    /\ pc' = "await"
    /\ UNCHANGED <<chunkData, allResponses, combinedMaterials, storeCalls, response>>
    /\ UNCHANGED <<retryVars, repairVars, auxVars>>

\* storeStudyMaterials resolves: NextResponse.json({...studyMaterials, ...})
StoreReturns ==
    /\ pc = "store"
    /\ response' = OkResponse(combinedMaterials)
    /\ pc' = "responded"
    /\ UNCHANGED <<chunkData, group, tasks, allResponses, combinedMaterials, storeCalls>>
    /\ UNCHANGED <<retryVars, repairVars, auxVars>>

\* storeStudyMaterials rejects: the catch of POST answers 500
StoreThrows ==
    /\ pc = "store"
    /\ response' = ErrorResponse(StoreError)
    /\ pc' = "responded"
    /\ UNCHANGED <<chunkData, group, tasks, allResponses, combinedMaterials, storeCalls>>
    /\ UNCHANGED <<retryVars, repairVars, auxVars>>

Next ==
    \/ StartGeneration
    \/ \E j \in 1..MaxContentLen : \E text \in PipelineTexts : ProviderAnswers(j, text)
    \/ \E j \in 1..MaxContentLen : \E err \in ProviderErrors : ProviderFails(j, err)
    \/ PacingDelayElapsed
    \/ StoreReturns
    \/ StoreThrows

Spec == Init /\ [][Next]_vars

(***************************************************************************)
(* Properties of one run of the pipeline.                                  *)
(***************************************************************************)
Tasks == DOMAIN tasks
Groups == DOMAIN chunks
InFlight == {j \in Tasks : tasks[j].st = "inflight"}
Settled(j) == tasks[j].st \in {"fulfilled", "rejected"}
Issued(j) == tasks[j].requests > 0
ParseRejected(j) == tasks[j].st = "rejected" /\ tasks[j].error = ParseError
TransientStatuses == {RateLimitStatus, ServerErrorStatus}
ProviderRejected(j) ==
    /\ tasks[j].st = "rejected"
    /\ tasks[j].error.kind = "provider"
    /\ tasks[j].error.status \in TransientStatuses

\* C2: at most K = 3 provider requests of the run are in flight at any moment,
\* and no request for a chunk of a batch is issued before every chunk of every
\* earlier batch has completed.
BatchesSequential ==
    /\ Cardinality(InFlight) <= 3
    /\ \A g \in Groups : \A g2 \in Groups :
          (g < g2 /\ \E j2 \in GroupIndices(chunks, g2) : Issued(j2))
              => \A j \in GroupIndices(chunks, g) : Settled(j)

\* a request of the second batch is in flight after the three of the first completed
BatchesSequentialWitness ==
    /\ Len(chunks) = 2
    /\ \A j \in GroupIndices(chunks, 1) : tasks[j].st = "fulfilled"
    /\ Cardinality(GroupIndices(chunks, 1)) = 3
    /\ \E j \in GroupIndices(chunks, 2) : tasks[j].st = "inflight"

\* C3: once the generation of any chunk has finally failed, the run has failed:
\* the caller gets an error response and never a document, and the store was
\* never invoked, whatever earlier chunks and batches produced.
ChunkFailureFailsRun ==
    (\E j \in Tasks : tasks[j].st = "rejected")
        => /\ pc = "responded"
           /\ response.status = 500
           /\ response.body = Undefined
           /\ combinedMaterials = Undefined
           /\ storeCalls = <<>>

\* a chunk of the second batch failed after the first batch produced its documents
ChunkFailureFailsRunWitness ==
    /\ Len(allResponses) = 3
    /\ \E j \in Tasks : j > 3 /\ tasks[j].st = "rejected"
    /\ response.status = 500
    /\ storeCalls = <<>>

\* C5: an unrepairable response makes the client issue the request again, at
\* most 2 additional times: no chunk ever causes more than 3 requests, and a
\* chunk that failed because its responses were unrepairable caused exactly 3.
MalformedRetryCappedAtTwo ==
    \A j \in Tasks :
        /\ tasks[j].requests <= 3
        /\ tasks[j].st = "inflight" => tasks[j].requests = tasks[j].malformed + 1
        /\ ParseRejected(j) => tasks[j].requests = 3 /\ tasks[j].malformed = 3

MalformedRetryCappedWitness ==
    \E j \in Tasks : ParseRejected(j) /\ tasks[j].requests = 3 /\ response.status = 500

\* C6 as stated: a chunk whose every response is unrepairable fails after
\* exactly 2 provider requests.
MalformedRetriedOnce ==
    \A j \in Tasks : ParseRejected(j) => tasks[j].requests = 2

\* C6, amended: each of the first two unrepairable responses of a chunk is
\* followed by a re-generation, and the third is fatal (3 requests in all).
MalformedRetriedTwiceStep ==
    \A j \in Tasks :
        (j \in DOMAIN tasks' /\ tasks'[j].malformed = tasks[j].malformed + 1)
            => IF tasks[j].malformed < 2
               THEN /\ tasks'[j].st = "inflight"
                    /\ tasks'[j].requests = tasks[j].requests + 1
                    /\ tasks'[j].retryCount = tasks[j].retryCount + 1
               ELSE /\ tasks'[j].st = "rejected"
                    /\ tasks'[j].error = ParseError
                    /\ tasks'[j].requests = 3

MalformedRetriedTwice == [][MalformedRetriedTwiceStep]_vars

\* the second re-generation of a chunk is in flight
MalformedRetriedTwiceWitness ==
    \E j \in Tasks :
        /\ tasks[j].st = "inflight"
        /\ tasks[j].malformed = 2
        /\ tasks[j].retryCount = 2
        /\ tasks[j].requests = 3

\* C7 as stated: a chunk never fails on its first rate-limit or server error;
\* when it fails with one, the request had been issued again before.
TransientErrorsRetried ==
    \A j \in Tasks : ProviderRejected(j) => tasks[j].failures > 1 /\ tasks[j].requests > 1

\* C10: merged flashcards and quiz entries are those of the partial documents in
\* chunk order, one per question: no two share a question, each is the earliest
\* entry with its question, every question is represented, order is unchanged.
EntriesInChunkOrder(key) ==
    Flatten([j \in Tasks |->
        IF tasks[j].st = "fulfilled" THEN Pushed(tasks[j].result, key) ELSE <<>>])

FirstPosition(entries, q) ==
    SetMin({k \in 1..Len(entries) : QuestionOf(entries[k]) = q})

DedupFirstWins(merged, entries) ==
    /\ \A m \in 1..Len(merged) : \A m2 \in 1..Len(merged) :
          m # m2 => QuestionOf(merged[m]) # QuestionOf(merged[m2])
    /\ \A k \in 1..Len(entries) : \E m \in 1..Len(merged) :
          QuestionOf(merged[m]) = QuestionOf(entries[k])
    /\ \A m \in 1..Len(merged) : \E k \in 1..Len(entries) :
          /\ merged[m] = entries[k]
          /\ k = FirstPosition(entries, QuestionOf(entries[k]))
    /\ \A m \in 1..Len(merged) : \A m2 \in 1..Len(merged) :
          m < m2 => FirstPosition(entries, QuestionOf(merged[m]))
                        < FirstPosition(entries, QuestionOf(merged[m2]))

MergeDedupFirstWins ==
    combinedMaterials # Undefined
        => /\ DedupFirstWins(Get(combinedMaterials, Key("flashcards")).a,
                             EntriesInChunkOrder(Key("flashcards")))
           /\ DedupFirstWins(Get(combinedMaterials, Key("quiz")).a,
                             EntriesInChunkOrder(Key("quiz")))

\* two partials give question q1 with answers a1 and a2, in that chunk order,
\* and the merged document has the one flashcard q1 with a1
MergeDedupWitness ==
    /\ combinedMaterials # Undefined
    /\ Len(tasks) >= 2
    /\ Get(tasks[1].result, Key("flashcards")) = Arr(<<Card(Word("q1"), Word("a1"))>>)
    /\ Get(tasks[2].result, Key("flashcards"))
           = Arr(<<Card(Word("q2"), Word("a1")), Card(Word("q1"), Word("a2"))>>)
    /\ Get(combinedMaterials, Key("flashcards"))
           = Arr(<<Card(Word("q1"), Word("a1")), Card(Word("q2"), Word("a1"))>>)

\* C11: the partial documents handed to the merger are the results of the chunks
\* in original chunk order, whatever the order in which the requests settled.
ResponsesInChunkOrder ==
    /\ \A k \in 1..Len(allResponses) :
          /\ k \in Tasks
          /\ tasks[k].st = "fulfilled"
          /\ allResponses[k] = tasks[k].result
    /\ combinedMaterials # Undefined
          => /\ Len(allResponses) = Len(tasks)
             /\ combinedMaterials = Merge([k \in Tasks |-> tasks[k].result])

\* the merger ran after chunk 2 settled before chunk 1, with a different document
ResponsesInChunkOrderWitness ==
    /\ combinedMaterials # Undefined
    /\ Len(tasks) >= 2
    /\ tasks[2].doneAt > 0
    /\ tasks[2].doneAt < tasks[1].doneAt
    /\ tasks[1].result # tasks[2].result

(***************************************************************************)
(* Properties of the batcher.                                              *)
(***************************************************************************)
\* C12: flattening the batches gives the chunks in order, no batch is empty or
\* has more than K chunks, and "A.B.C." with C = 2 and K = 2 gives the chunks
\* "A.", "B.", "C." in the batches ["A.", "B."] and ["C."].
BatchesPreserveChunks ==
    pc = "split" =>
        /\ Flatten(chunks) = contentChunks
        /\ \A g \in DOMAIN chunks :
              Len(chunks[g]) >= 1 /\ Len(chunks[g]) <= concurrencyLimit
        /\ (content = ExampleContent /\ chunkSize = 2 /\ concurrencyLimit = 2)
              => /\ contentChunks = <<<<"A", ".">>, <<"B", ".">>, <<"C", ".">>>>
                 /\ chunks = << <<<<"A", ".">>, <<"B", ".">>>>, <<<<"C", ".">>>> >>

BatchesPreserveChunksWitness ==
    /\ pc = "split"
    /\ content = ExampleContent
    /\ chunkSize = 2
    /\ concurrencyLimit = 2
    /\ Len(chunks) = 2

(***************************************************************************)
(* chunkArray(array, size), and the same loop over the characters of       *)
(* content in generateStudyMaterials of the second route, step by step:    *)
(*   for (let i = 0; i < array.length; i += size)                          *)
(*     chunks.push(array.slice(i, i + size));                              *)
(*   pc  "test"      about to evaluate i < array.length                    *)
(*       "body"      about to run the body, then i += size                 *)
(*       "returned"  return chunks                                         *)
(* The loop can run for ever; the model follows at most MaxLoopSteps       *)
(* iterations of it.                                                       *)
(***************************************************************************)
Max(a, b) == IF a > b THEN a ELSE b

\* a start or end argument of slice, relative to the end when negative
SliceIndex(k, len) == IF k < 0 THEN Max(len + k, 0) ELSE Min(k, len)

\* array.slice(start, end)
Slice(array, start, end) ==
    SubSeq(array, SliceIndex(start, Len(array)) + 1, SliceIndex(end, Len(array)))

Iota(n) == [k \in 1..n |-> k]

InitLoop ==
    /\ ChunkerOff /\ RetryOff /\ RepairOff /\ RunOff /\ MergeOff /\ CacheOff /\ TranscriptOff
    /\ \E n \in 0..MaxArrayLen : \E size \in (0 - MaxSize)..MaxSize :
          chunkLoop = [array |-> Iota(n), size |-> size, i |-> 0,
                       chunks |-> <<>>, pc |-> "test"]

\* i < array.length
LoopTest ==
    /\ chunkLoop.pc = "test"
    /\ chunkLoop' = [chunkLoop EXCEPT
                        !.pc = IF chunkLoop.i < Len(chunkLoop.array)
                               THEN "body" ELSE "returned"]
    /\ UNCHANGED <<chunkVars, retryVars, repairVars, runVars, merging, cacheVars, transcript>>

\* chunks.push(array.slice(i, i + size)); i += size
LoopBody ==
    /\ chunkLoop.pc = "body"
    /\ Len(chunkLoop.chunks) < MaxLoopSteps
    /\ chunkLoop' = [chunkLoop EXCEPT
                        !.chunks = Append(@, Slice(chunkLoop.array, chunkLoop.i,
                                                   chunkLoop.i + chunkLoop.size)),
                        !.i = @ + chunkLoop.size,
                        !.pc = "test"]
    /\ UNCHANGED <<chunkVars, retryVars, repairVars, runVars, merging, cacheVars, transcript>>

NextLoop == LoopTest \/ LoopBody

SpecLoop == InitLoop /\ [][NextLoop]_vars

\* with a positive size the loop returns what chunkArray is defined to be
LoopAgreesWithChunkArray ==
    (chunkLoop.pc = "returned" /\ chunkLoop.size > 0)
        => chunkLoop.chunks = chunkArray(chunkLoop.array, chunkLoop.size)

\* C13: a call with size <= 0 is reported as an error: it neither enters the
\* loop nor returns a sequence.
InvalidSizeRejected ==
    chunkLoop.size <= 0 => chunkLoop.pc \notin {"body", "returned"}

\* with size <= 0 and a non-empty array the loop is still running after
\* MaxLoopSteps iterations, none of which advanced i past the start
InvalidSizeLoops ==
    /\ chunkLoop.size <= 0
    /\ chunkLoop.pc = "body"
    /\ Len(chunkLoop.chunks) = MaxLoopSteps
    /\ chunkLoop.i <= 0

\* with size <= 0 and an empty array the call returns a sequence
InvalidSizeReturns ==
    chunkLoop.size <= 0 /\ chunkLoop.pc = "returned"

(***************************************************************************)
(* More properties of sanitizeAndParseJSON.                                *)
(***************************************************************************)
Braces == {"{", "}"}
Braceless(text) == \A k \in 1..Len(text) : text[k] \notin Braces

\* C14: text that contains no brace makes the repair fail: no document is
\* returned for it.
BracelessTextFails ==
    (spc = "done" /\ Braceless(rawText))
        => ~repaired.ok /\ repaired.doc = Undefined

(***************************************************************************)
(* More properties of one run of the pipeline.                             *)
(***************************************************************************)
\* !content || content.trim().length === 0
Blank(text) == Trim(text) = <<>>

\* C15: when the extracted content is empty or whitespace-only the request ends
\* with an error: no provider request is issued, nothing is stored and no
\* success is returned.
BlankContentFails ==
    (Blank(content) /\ pc # "start")
        => /\ \A j \in Tasks : tasks[j].requests = 0
           /\ storeCalls = <<>>
           /\ response.status # 200
           /\ pc = "responded"

(***************************************************************************)
(* More properties of retryWithBackoff.                                    *)
(***************************************************************************)
\* C16: an error that is neither a rate limit nor a server error is never
\* retried: the call that raised it is the last one, no delay follows it and the
\* error is rethrown; raised by the first call, it leaves exactly one call.
OtherErrorsNeverRetried ==
    \A k \in 1..Len(outcomes) :
        (outcomes[k] # 0 /\ outcomes[k] \notin {RateLimitStatus, ServerErrorStatus})
            => /\ k = Len(outcomes)
               /\ rpc = "thrown"
               /\ rerr = outcomes[k]
               /\ calls = k
               /\ Len(waits) = k - 1

\* the first call failed with another error although retries were allowed
OtherErrorsNeverRetriedWitness ==
    /\ outcomes = <<OtherErrorStatus>>
    /\ maxRetries > 0
    /\ rpc = "thrown"
    /\ rerr = OtherErrorStatus
    /\ calls = 1
    /\ waits = <<>>

\* the rejected chain that failed the run: the first of its group to reject
FailedRun(j) ==
    /\ tasks[j].st = "rejected"
    /\ \A k \in Tasks : tasks[k].st = "rejected" => tasks[k].doneAt >= tasks[j].doneAt

\* C17: when the run fails because a chunk's responses could not be repaired,
\* the error the caller receives differs from the one returned for a rate-limit
\* failure and from the one returned for an unclassified failure.
MalformedFailureIdentified ==
    \A j \in Tasks :
        (FailedRun(j) /\ tasks[j].error = ParseError)
            => /\ response.status = 500
               /\ response.error # MapError("rate limit exceeded")
               /\ response.error # MapError("400 Bad Request")

(***************************************************************************)
(* The three mergers, as pure functions of the partial documents in chunk  *)
(* order: generateStudyMaterials of the Gemini route (Merge, above), POST  *)
(* of the OpenRouter route, and generateStudyMaterials of the second       *)
(* route.                                                                  *)
(***************************************************************************)
\* OpenRouter route: if (!parsedContent.summary || !Array.isArray(questions) ||
\*                       !difficulty_level || !estimated_study_time) throw
ValidOpenRouter(doc) ==
    /\ Truthy(Get(doc, Key("summary")))
    /\ IsArray(Get(doc, Key("questions")))
    /\ Truthy(Get(doc, Key("difficulty_level")))
    /\ Truthy(Get(doc, Key("estimated_study_time")))

\* OpenRouter route, lines 798-815; allResponses[0] of no response throws
MergeOpenRouterThrows(resps) ==
    \/ resps = <<>>
    \/ \E n \in 1..Len(resps) : \E word \in {"summary", "questions"} :
          PushThrows(resps[n], Key(word))

MergeOpenRouter(resps) ==
    Obj(<<Prop("summary", Arr(DedupSummary(Collected(resps, Key("summary"))))),
          Prop("questions", Arr(DedupBy(Collected(resps, Key("questions")), QuestionOf))),
          Prop("difficulty_level", Get(resps[1], Key("difficulty_level"))),
          Prop("estimated_study_time", Get(resps[1], Key("estimated_study_time")))>>)

\* allResults.flatMap(r => r[key] || []): an array is flattened one level, any
\* other truthy value is one element
FlatMapped(results, key) ==
    Flatten(MapSeq(results, LAMBDA r :
        LET v == Get(r, key)
        IN IF ~Truthy(v) THEN <<>> ELSE IF IsArray(v) THEN v.a ELSE <<v>>))

\* x || fallback
OrElse(x, fallback) == IF Truthy(x) THEN x ELSE fallback

\* second route, lines 554-561
Combine(results) ==
    Obj(<<Prop("summary", Arr(FlatMapped(results, Key("summary")))),
          Prop("flashcards", Arr(FlatMapped(results, Key("flashcards")))),
          Prop("quiz", Arr(FlatMapped(results, Key("quiz")))),
          Prop("hashtags",
               Arr(Slice(DedupSummary(FlatMapped(results, Key("hashtags"))), 0, HashtagLimit))),
          Prop("difficulty_level",
               OrElse(Get(results[1], Key("difficulty_level")), Word("beginner"))),
          Prop("estimated_study_time",
               OrElse(Get(results[1], Key("estimated_study_time")), Word("30 minutes")))>>)

\* partial documents the mergers are applied to
Tags(words) == Arr(MapSeq(words, LAMBDA w : Word(w)))

SummaryChoices ==
    {Undefined, Arr(<<Word("s1")>>), Arr(<<Word("s2"), Word("s1")>>),
     Str(<<"s1", " ", "s2">>)}
TagChoices ==
    {Undefined, Tags(<<"Topic", "t1", "t2", "t3", "t4">>),
     Tags(<<"topic", "t5", "t6", "t7", "t8">>)}
LevelChoices == {"", "beginner", "advanced"}

Optional(word, val) == IF val = Undefined THEN <<>> ELSE <<Prop(word, val)>>

MakePartial(summary, tags, level) ==
    Obj(Optional("summary", summary)
        \o <<Prop("questions", Arr(<<>>))>>
        \o Optional("hashtags", tags)
        \o (IF level = "" THEN <<>>
            ELSE <<Prop("difficulty_level", Word(level)),
                   Prop("estimated_study_time",
                        Word(IF level = "beginner" THEN "30 minutes" ELSE "60 minutes"))>>))

MergePartials ==
    {MakePartial(s, h, d) : s \in SummaryChoices, h \in TagChoices, d \in LevelChoices}

InitMerge ==
    /\ ChunkerOff /\ RetryOff /\ RepairOff /\ RunOff /\ LoopOff /\ CacheOff /\ TranscriptOff
    /\ \E partials \in SeqsUpTo(MergePartials, MaxPartials) :
          merging = [partials |-> partials, by |-> "start",
                     out |-> Undefined, threw |-> FALSE]

Merged(by, threw, out) ==
    /\ merging.by = "start"
    /\ merging' = [merging EXCEPT !.by = by, !.threw = threw,
                                  !.out = IF threw THEN Undefined ELSE out]
    /\ UNCHANGED <<chunkVars, retryVars, repairVars, runVars, chunkLoop, cacheVars, transcript>>

\* Gemini route: any document sanitizeAndParseJSON returned is merged
MergeGemini ==
    /\ merging.partials \in Seq(MergePartials)
    /\ Merged("gemini", MergeThrows(merging.partials), Merge(merging.partials))

\* OpenRouter route: the responses passed the validation of generateStudyMaterials
MergeByOpenRouter ==
    /\ \A n \in 1..Len(merging.partials) : ValidOpenRouter(merging.partials[n])
    /\ Merged("openrouter", MergeOpenRouterThrows(merging.partials),
              MergeOpenRouter(merging.partials))

\* second route: if (chunks.length > 1)
CombineResults ==
    /\ Len(merging.partials) > 1
    /\ Merged("combine", FALSE, Combine(merging.partials))

NextMerge == MergeGemini \/ MergeByOpenRouter \/ CombineResults

SpecMerge == InitMerge /\ [][NextMerge]_vars

(***************************************************************************)
(* Properties of the mergers.                                              *)
(***************************************************************************)
MergedBy(routes) == merging.by \in routes /\ ~merging.threw

\* the elements a partial supplies under key: those of an array, or the one string
Entries(doc, key) ==
    LET v == Get(doc, key)
    IN IF IsArray(v) THEN v.a ELSE IF IsString(v) THEN <<v>> ELSE <<>>

AllEntries(key) == Flatten(MapSeq(merging.partials, LAMBDA doc : Entries(doc, key)))

\* lower case, on the words of the model
LowerCase(w) == IF w = "Topic" THEN "topic" ELSE w
Lower(tag) == Str(MapSeq(tag.s, LowerCase))

\* C18: the merged hashtags are the hashtags of the partials in lower case,
\* deduplicated after that normalization and truncated to 8 entries.
HashtagsNormalized ==
    MergedBy({"gemini", "combine"})
        => Entries(merging.out, Key("hashtags"))
              = Slice(DedupBy(MapSeq(AllEntries(Key("hashtags")), Lower), Itself), 0, 8)

\* the value of key in the first partial that defines it, undefined when none does
FirstDefined(key) ==
    LET defining == {n \in 1..Len(merging.partials) :
                        Get(merging.partials[n], key) # Undefined}
    IN IF defining = {} THEN Undefined
       ELSE Get(merging.partials[SetMin(defining)], key)

\* C19: difficulty level and estimated study time of the merged document are
\* each taken from the first partial, in chunk order, that defines the field,
\* and are absent only when no partial defines it.
LevelFromFirstDefining ==
    MergedBy({"gemini", "openrouter", "combine"})
        => /\ Get(merging.out, Key("difficulty_level"))
                 = FirstDefined(Key("difficulty_level"))
           /\ Get(merging.out, Key("estimated_study_time"))
                 = FirstDefined(Key("estimated_study_time"))

\* C20: the merged summary is the summary entries of the partials in chunk
\* order, each intact as one element, with later exact duplicates removed.
SummaryEntriesIntact ==
    MergedBy({"gemini", "openrouter"})
        => Get(merging.out, Key("summary"))
              = Arr(DedupBy(AllEntries(Key("summary")), Itself))

(***************************************************************************)
(* Short content                                                           *)
(***************************************************************************)
\* C21: content of length between 1 and chunkSize yields exactly one chunk,
\* equal to the content; no chunk of any result is empty; and the result is
\* the empty sequence if and only if the content is empty.
ShortContentSingleChunk ==
    pc = "split" =>
        /\ (Len(content) \in 1..chunkSize => contentChunks = <<content>>)
        /\ \A k \in 1..Len(contentChunks) : contentChunks[k] # <<>>
        /\ (contentChunks = <<>> <=> content = <<>>)

\* the part of it that the regular expression does guarantee
NoChunkIsEmpty ==
    pc = "split" =>
        /\ \A k \in 1..Len(contentChunks) : contentChunks[k] # <<>>
        /\ (content = <<>> => contentChunks = <<>>)
        /\ (Len(content) \in 1..chunkSize
              /\ (\A k \in 1..Len(content) : content[k] \notin LineTerminators)
              => contentChunks = <<content>>)

(***************************************************************************)
(* Siblings of a failed chunk                                              *)
(***************************************************************************)
\* the run has failed because a chunk of the batch being awaited failed
RunFailedByChunk ==
    /\ pc = "responded"
    /\ response.status = 500
    /\ group \in Groups
    /\ \E j \in GroupIndices(chunks, group) : tasks[j].st = "rejected"

\* C22: when a chunk of a batch exhausts its retries, the run fails only after
\* every in-flight sibling of the batch has finished: the failure is never
\* reported to the caller while a sibling request of that batch is in flight.
SiblingsFinishBeforeFailure ==
    RunFailedByChunk =>
        \A j \in GroupIndices(chunks, group) : tasks[j].st # "inflight"

\* what Promise.all does instead: the failure is reported at the very step in
\* which the first chunk of the batch is rejected
FailureReportedAtFirstRejection ==
    (group \in Groups /\ \E j \in GroupIndices(chunks, group) : tasks[j].st = "rejected")
        => RunFailedByChunk

(***************************************************************************)
(* Pacing between batches                                                  *)
(***************************************************************************)
NewlyIssued(j) ==
    /\ j \in DOMAIN tasks'
    /\ tasks'[j].requests > 0
    /\ (j \in DOMAIN tasks => tasks[j].requests = 0)

BatchCompletes ==
    /\ pc = "await"
    /\ tasks' # tasks
    /\ \A j \in GroupIndices(chunks, group) : tasks'[j].st = "fulfilled"

PacedStep ==
    \* the first requests of a batch after the first follow a completed delay
    /\ \A j \in 1..MaxContentLen + 1 :
          (NewlyIssued(j) /\ group' # 1)
              => /\ pc = "delay"
                 /\ group' = group + 1
                 /\ j \in GroupIndices(chunks, group + 1)
                 /\ Len(waits) = group
                 /\ waits[group] = PacingDelay
                 /\ \A k \in GroupIndices(chunks, group) : tasks[k].st = "fulfilled"
    \* the completion of a batch starts the delay, unless the batch is the last
    /\ BatchCompletes =>
          IF group < Len(chunks)
          THEN pc' = "delay" /\ waits' = Append(waits, PacingDelay)
          ELSE pc' \in {"store", "responded"} /\ waits' = waits
    \* and there is no other delay
    /\ waits' # waits => BatchCompletes /\ group < Len(chunks)

\* one delay of 1 s for each pair of consecutive batches gone through
PacingCount ==
    pc \in {"start", "await", "delay", "store", "responded"} =>
        /\ \A k \in 1..Len(waits) : waits[k] = PacingDelay
        /\ Len(waits) = (IF group = 0 THEN 0 ELSE group - 1) + (IF pc = "delay" THEN 1 ELSE 0)
        /\ (pc = "store" /\ chunks # <<>> => Len(waits) = Len(chunks) - 1)

\* C23: between the completion of the last chunk of batch i and the first
\* provider request of batch i+1 the orchestrator waits the fixed pacing delay
\* of 1 s; the delay is inserted exactly once between each pair of consecutive
\* batches and not after the last batch.
PacingBetweenBatches == []PacingCount /\ [][PacedStep]_vars

\* the second batch is in flight after one delay, and the run ended without another
PacingBetweenBatchesWitness ==
    /\ Len(chunks) = 2
    /\ pc = "store"
    /\ waits = <<PacingDelay>>
    /\ \A j \in Tasks : tasks[j].st = "fulfilled"

(***************************************************************************)
(* Order of the stages of the repair                                       *)
(***************************************************************************)
\* the text a stage parses: 1 the response as is, 2 the cleaned text, 3 the
\* aggressively cleaned text
StageText(stage, text) ==
    CASE stage = 1 -> text
      [] stage = 2 -> CleanText(text)
      [] stage = 3 -> AggressiveCleanText(CleanText(text))

StageParses(stage, text) == JSONParse(StageText(stage, text)).ok

\* the stage yields a schema-valid document
StageYields(stage, text) ==
    /\ StageParses(stage, text)
    /\ ValidStructure(JSONParse(StageText(stage, text)).val)

Stages == 1..3

\* C24: the stages are tried in order; a stage is attempted only after every
\* earlier stage failed to yield a schema-valid document, and the document
\* returned is the one produced by the earliest stage that succeeds in
\* yielding a schema-valid document.
EarliestValidStageReturns ==
    ReturnedDoc =>
        /\ repaired.stage \in Stages
        /\ StageYields(repaired.stage, rawText)
        /\ \A earlier \in Stages : earlier < repaired.stage => ~StageYields(earlier, rawText)

\* what the code does: the first stage returns whatever parses, and only the
\* later stages validate
StageReturns(stage, text) ==
    IF stage = 1 THEN StageParses(1, text) ELSE StageYields(stage, text)

EarliestReturningStageReturns ==
    spc = "done" =>
        IF repaired.ok
        THEN /\ repaired.stage \in Stages
             /\ StageReturns(repaired.stage, rawText)
             /\ \A earlier \in Stages :
                   earlier < repaired.stage => ~StageReturns(earlier, rawText)
        ELSE \A stage \in Stages : ~StageReturns(stage, rawText)

\* a response that parses directly into an array holding the document: the
\* first stage returns the array, the second would have yielded the document
LaterStageWouldYield ==
    /\ ReturnedDoc
    /\ repaired.stage = 1
    /\ ~StageYields(1, rawText)
    /\ StageYields(2, rawText)

(***************************************************************************)
(* Partial recovery                                                        *)
(***************************************************************************)
\* what the stage that returned had parsed
ParsedAtStage == JSONParse(StageText(repaired.stage, rawText)).val

ArrayOf(doc, key) == IF IsArray(Get(doc, key)) THEN Get(doc, key).a ELSE <<>>

\* some stage parses the response into an object with the three arrays
HasTopLevelArrays == \E stage \in Stages : StageYields(stage, rawText)

SomeEntryInvalid(doc) ==
    \/ \E n \in 1..Len(ArrayOf(doc, Key("flashcards"))) :
          ~KeepCard(ArrayOf(doc, Key("flashcards"))[n])
    \/ \E n \in 1..Len(ArrayOf(doc, Key("quiz"))) :
          ~KeepQuiz(ArrayOf(doc, Key("quiz"))[n])

\* the returned entries are the valid ones of the parsed document, in order
OnlyValidEntriesReturned ==
    /\ ArrayOf(repaired.doc, Key("flashcards"))
          = CleanFlashcards(ArrayOf(ParsedAtStage, Key("flashcards")))
    /\ ArrayOf(repaired.doc, Key("quiz"))
          = CleanQuiz(ArrayOf(ParsedAtStage, Key("quiz")))

\* C25: when a parsed response has the three top-level arrays but some
\* flashcard or quiz entries fail object-level validation, repair succeeds
\* and returns exactly the valid entries in their original order, at
\* whichever stage the parse succeeded.
InvalidEntriesDropped ==
    (spc = "done" /\ HasTopLevelArrays) =>
        /\ repaired.ok
        /\ OnlyValidEntriesReturned

\* the part that holds: repair never fails on such a response, and the
\* second stage does drop the invalid entries
InvalidEntriesDroppedWhenCleaned ==
    (spc = "done" /\ HasTopLevelArrays) =>
        /\ repaired.ok
        /\ repaired.stage = 2 => OnlyValidEntriesReturned

\* entries were dropped by the second stage
InvalidEntriesDroppedWitness ==
    /\ ReturnedDoc
    /\ repaired.stage = 2
    /\ SomeEntryInvalid(ParsedAtStage)
    /\ ~SomeEntryInvalid(repaired.doc)

\* invalid entries returned by the first and by the third stage
InvalidEntriesKeptDirect ==
    ReturnedDoc /\ repaired.stage = 1 /\ HasTopLevelArrays /\ SomeEntryInvalid(repaired.doc)
InvalidEntriesKeptFinal ==
    ReturnedDoc /\ repaired.stage = 3 /\ HasTopLevelArrays /\ SomeEntryInvalid(repaired.doc)

(***************************************************************************)
(* Server errors in retryWithBackoff                                       *)
(***************************************************************************)
\* C26: every retry that follows a server error (status 500) waits exactly the
\* fixed 15 s delay whatever the attempt number, and server-error retries
\* share the cap of rate-limit retries: for any mix of 429 and 500 failures
\* there are at most maxRetries + 1 calls before the last error is raised.
ServerErrorsFixedDelay ==
    /\ Len(waits) <= maxRetries
    /\ \A n \in 1..Len(waits) :
          /\ outcomes[n] \in {RateLimitStatus, ServerErrorStatus}
          /\ outcomes[n] = ServerErrorStatus => waits[n] = ServerErrorDelay
    /\ calls <= maxRetries + 1
    /\ rpc = "thrown" =>
          /\ rerr = outcomes[Len(outcomes)]
          /\ rerr \in {RateLimitStatus, ServerErrorStatus} => calls = maxRetries + 1

\* a rate limit and then server errors up to the cap: the second and the third
\* retry waited 15 s each, the fourth failure was raised
ServerErrorsFixedDelayWitness ==
    /\ maxRetries = 3
    /\ outcomes = <<RateLimitStatus, ServerErrorStatus, ServerErrorStatus, ServerErrorStatus>>
    /\ waits = <<initialDelay, ServerErrorDelay, ServerErrorDelay>>
    /\ calls = 4
    /\ rpc = "thrown"
    /\ rerr = ServerErrorStatus

(***************************************************************************)
(* The cached route (part_001).  POST looks the URL up in study_materials; *)
(* on a hit it answers from the stored rows, otherwise it extracts the     *)
(* content, generates the materials and, for a signed-in user, stores      *)
(* them with four inserts.  Several requests are served concurrently: a    *)
(* request runs from one await to the next, and then any other may run.    *)
(*   pc  "check"            in await checkExistingContent(url)             *)
(*       "fetch"            in await Promise.all of the three selects      *)
(*       "extract"          in await extractContent(url)                   *)
(*       "generate"         in await generateStudyMaterials(content)       *)
(*       "insertMaterial"   in the insert into study_materials             *)
(*       "insertFlashcards" "insertQuizzes" "insertHashtags" likewise      *)
(*       "responded"        POST has returned its response                 *)
(***************************************************************************)
MaxPosts == 3

Urls == {"u1", "u2"}
NoUrl == ""
\* userId is optional in the request body
UserIds == {"", "user"}

\* the generated materials, by the number of entries of each kind
GeneratedDocs ==
    { [flashcards |-> 1, quiz |-> 1, hashtags |-> 1],
      [flashcards |-> 0, quiz |-> 0, hashtags |-> 0] }
NoDoc == [flashcards |-> 0, quiz |-> 0, hashtags |-> 0]

NoReply == [status |-> 0, cached |-> FALSE, error |-> ""]
CachedReply == [status |-> 200, cached |-> TRUE, error |-> ""]
FreshReply == [status |-> 200, cached |-> FALSE, error |-> ""]
ErrorReply(status, message) == [status |-> status, cached |-> FALSE, error |-> message]

NewPost ==
    [pc |-> "check", url |-> NoUrl, userId |-> "", rowExisted |-> FALSE,
     existing |-> 0, materials |-> NoDoc, requests |-> 0, sid |-> 0,
     failedAt |-> "", response |-> NoReply]

\* .from('study_materials').select('*').eq('url', url)
RowsOf(url) == SelectSeq(db.materials, LAMBDA row : row.url = url)

\* .single(): the row when the query matches exactly one, otherwise an error
\* (which checkExistingContent only logs) and no data; the id 0 stands for null
NoRow == [id |-> 0, url |-> NoUrl, userId |-> "", doc |-> NoDoc]
Single(rows) == IF Len(rows) = 1 THEN rows[1] ELSE NoRow

checkExistingContent(url) == Single(RowsOf(url))

\* storeStudyMaterials after an insert: the next insert its document needs
StoreNext(doc, after) ==
    IF after = "insertMaterial" /\ doc.flashcards > 0 THEN "insertFlashcards"
    ELSE IF after \in {"insertMaterial", "insertFlashcards"} /\ doc.quiz > 0
    THEN "insertQuizzes"
    ELSE IF after \in {"insertMaterial", "insertFlashcards", "insertQuizzes"}
            /\ doc.hashtags > 0
    THEN "insertHashtags"
    ELSE "responded"

\* storeStudyMaterials goes on after an insert; when it returns, POST answers
AfterInsert(post, after) ==
    LET next == StoreNext(post.materials, after)
    IN [post EXCEPT !.pc = next,
                    !.response = IF next = "responded" THEN FreshReply ELSE @]

Failed(post, message) ==
    [post EXCEPT !.pc = "responded", !.response = ErrorReply(500, message)]

InitCache ==
    /\ ChunkerOff /\ RetryOff /\ RepairOff /\ RunOff /\ LoopOff /\ MergeOff /\ TranscriptOff
    /\ db = EmptyDb
    /\ posts = <<>>

cacheOthers == <<chunkVars, retryVars, repairVars, runVars, chunkLoop, merging, transcript>>

\* POST up to its first await
Receive(url, userId) ==
    /\ Len(posts) < MaxPosts
    /\ posts' = Append(posts,
          IF url = NoUrl
          THEN [NewPost EXCEPT !.pc = "responded",
                               !.response = ErrorReply(400, "URL is required")]
          ELSE [NewPost EXCEPT !.url = url, !.userId = userId,
                               !.rowExisted = RowsOf(url) # <<>>])
    /\ UNCHANGED db
    /\ UNCHANGED cacheOthers

\* checkExistingContent resolves
CheckExisting(r) ==
    /\ posts[r].pc = "check"
    /\ LET data == checkExistingContent(posts[r].url)
       IN posts' = [posts EXCEPT ![r] =
              IF data.id # 0
              THEN [@ EXCEPT !.pc = "fetch", !.existing = data.id]
              ELSE [@ EXCEPT !.pc = "extract"]]
    /\ UNCHANGED db
    /\ UNCHANGED cacheOthers

\* the three selects resolve: the answer is built from the stored rows
FetchAssociated(r) ==
    /\ posts[r].pc = "fetch"
    /\ posts' = [posts EXCEPT ![r] = [@ EXCEPT !.pc = "responded", !.response = CachedReply]]
    /\ UNCHANGED db
    /\ UNCHANGED cacheOthers

\* extractContent resolves with content, which may be blank
ExtractReturns(r, blank) ==
    /\ posts[r].pc = "extract"
    /\ posts' = [posts EXCEPT ![r] =
          IF blank THEN Failed(@, "No content could be extracted from the URL")
          ELSE [@ EXCEPT !.pc = "generate"]]
    /\ UNCHANGED db
    /\ UNCHANGED cacheOthers

ExtractThrows(r) ==
    /\ posts[r].pc = "extract"
    /\ posts' = [posts EXCEPT ![r] = Failed(@, "Failed to extract content from URL")]
    /\ UNCHANGED db
    /\ UNCHANGED cacheOthers

\* generateStudyMaterials resolves: if (userId) await storeStudyMaterials(...)
GenerateReturns(r, doc) ==
    /\ posts[r].pc = "generate"
    /\ posts' = [posts EXCEPT ![r] =
          IF posts[r].userId # ""
          THEN [@ EXCEPT !.pc = "insertMaterial", !.materials = doc, !.requests = @ + 1]
          ELSE [@ EXCEPT !.pc = "responded", !.materials = doc, !.requests = @ + 1,
                         !.response = FreshReply]]
    /\ UNCHANGED db
    /\ UNCHANGED cacheOthers

GenerateThrows(r) ==
    /\ posts[r].pc = "generate"
    /\ posts' = [posts EXCEPT ![r] =
          Failed([@ EXCEPT !.requests = @ + 1],
                 "Failed to generate study materials. Please try again.")]
    /\ UNCHANGED db
    /\ UNCHANGED cacheOthers

\* insert into study_materials ... .select().single(): studyMaterial.id
InsertMaterial(r) ==
    /\ posts[r].pc = "insertMaterial"
    /\ LET id == Len(db.materials) + 1
       IN /\ db' = [db EXCEPT !.materials =
                       Append(@, [id |-> id, url |-> posts[r].url,
                                  userId |-> posts[r].userId, doc |-> posts[r].materials])]
          /\ posts' = [posts EXCEPT ![r] = AfterInsert([@ EXCEPT !.sid = id], "insertMaterial")]
    /\ UNCHANGED cacheOthers

InsertFlashcards(r) ==
    /\ posts[r].pc = "insertFlashcards"
    /\ db' = [db EXCEPT !.flashcards = @ \cup {posts[r].sid}]
    /\ posts' = [posts EXCEPT ![r] = AfterInsert(@, "insertFlashcards")]
    /\ UNCHANGED cacheOthers

InsertQuizzes(r) ==
    /\ posts[r].pc = "insertQuizzes"
    /\ db' = [db EXCEPT !.quizzes = @ \cup {posts[r].sid}]
    /\ posts' = [posts EXCEPT ![r] = AfterInsert(@, "insertQuizzes")]
    /\ UNCHANGED cacheOthers

InsertHashtags(r) ==
    /\ posts[r].pc = "insertHashtags"
    /\ db' = [db EXCEPT !.hashtags = @ \cup {posts[r].sid}]
    /\ posts' = [posts EXCEPT ![r] = AfterInsert(@, "insertHashtags")]
    /\ UNCHANGED cacheOthers

InsertSteps == {"insertMaterial", "insertFlashcards", "insertQuizzes", "insertHashtags"}

\* an insert answers with an error: throw, catch { throw error }, and the
\* catch of POST answers 500; nothing is deleted
InsertThrows(r) ==
    /\ posts[r].pc \in InsertSteps
    /\ posts' = [posts EXCEPT ![r] = Failed([@ EXCEPT !.failedAt = posts[r].pc], "insert failed")]
    /\ UNCHANGED db
    /\ UNCHANGED cacheOthers

NextCache ==
    \/ \E url \in Urls \cup {NoUrl} : \E userId \in UserIds : Receive(url, userId)
    \/ \E r \in DOMAIN posts : CheckExisting(r)
    \/ \E r \in DOMAIN posts : FetchAssociated(r)
    \/ \E r \in DOMAIN posts : \E blank \in BOOLEAN : ExtractReturns(r, blank)
    \/ \E r \in DOMAIN posts : ExtractThrows(r)
    \/ \E r \in DOMAIN posts : \E doc \in GeneratedDocs : GenerateReturns(r, doc)
    \/ \E r \in DOMAIN posts : GenerateThrows(r)
    \/ \E r \in DOMAIN posts : InsertMaterial(r)
    \/ \E r \in DOMAIN posts : InsertFlashcards(r)
    \/ \E r \in DOMAIN posts : InsertQuizzes(r)
    \/ \E r \in DOMAIN posts : InsertHashtags(r)
    \/ \E r \in DOMAIN posts : InsertThrows(r)

SpecCache == InitCache /\ [][NextCache]_vars

\* C27: for any interleaving of concurrent POST requests for the same URL at
\* most one study_materials row for that URL is ever stored, and once a row
\* exists every later request for that URL is answered from the stored row
\* (cached: true) without a provider request.
OneRowPerUrl ==
    /\ \A url \in Urls : Len(RowsOf(url)) <= 1
    /\ \A r \in DOMAIN posts :
          posts[r].rowExisted =>
              /\ posts[r].requests = 0
              /\ posts[r].pc = "responded" => posts[r].response = CachedReply

\* two requests for the same URL both missed the cache and both stored a row
DuplicateRowsStored ==
    \E r1, r2 \in DOMAIN posts :
        /\ r1 # r2
        /\ posts[r1].url = posts[r2].url
        /\ posts[r1].sid # 0 /\ posts[r2].sid # 0
        /\ ~posts[r1].rowExisted /\ ~posts[r2].rowExisted

\* a request that arrived when rows for its URL existed went to the provider
LaterRequestRegenerated ==
    \E r \in DOMAIN posts : posts[r].rowExisted /\ posts[r].requests > 0

\* what does hold: a request that finds exactly one row when it checks is
\* answered from it, and no request stores a row for a URL it found stored
HitsAnsweredFromStore ==
    \A r \in DOMAIN posts :
        /\ posts[r].existing # 0 => posts[r].requests = 0 /\ posts[r].sid = 0
        /\ (posts[r].existing # 0 /\ posts[r].pc = "responded")
              => posts[r].response = CachedReply

(***************************************************************************)
(* Atomicity of storeStudyMaterials                                        *)
(***************************************************************************)
\* the rows of the document whose study_materials row has the id sid
MaterialStored(sid) == \E k \in 1..Len(db.materials) : db.materials[k].id = sid
NothingStored(sid) ==
    /\ ~MaterialStored(sid)
    /\ sid \notin db.flashcards
    /\ sid \notin db.quizzes
    /\ sid \notin db.hashtags
AllStored(sid, doc) ==
    /\ MaterialStored(sid)
    /\ doc.flashcards > 0 => sid \in db.flashcards
    /\ doc.quiz > 0 => sid \in db.quizzes
    /\ doc.hashtags > 0 => sid \in db.hashtags

\* storeStudyMaterials of request r is over
StoreEnded(r) == posts[r].pc = "responded"
StoreFailed(r) == posts[r].failedAt # ""

\* C28: storeStudyMaterials is all-or-nothing: if it fails at any step, no row
\* of that document remains stored, so a stored study_materials row always has
\* all of its document's flashcards, quizzes and hashtags stored with it.
StoreAllOrNothing ==
    \A r \in DOMAIN posts :
        /\ StoreFailed(r) => NothingStored(posts[r].sid)
        /\ (StoreEnded(r) /\ MaterialStored(posts[r].sid))
              => AllStored(posts[r].sid, posts[r].materials)

\* what holds: a store that returned stored everything, and one that failed at
\* the first insert stored nothing
StoreCompleteWhenReturned ==
    \A r \in DOMAIN posts :
        /\ (StoreEnded(r) /\ ~StoreFailed(r) /\ posts[r].sid # 0)
              => AllStored(posts[r].sid, posts[r].materials)
        /\ posts[r].failedAt = "insertMaterial" => posts[r].sid = 0

\* the study_materials row and the flashcards stay after the quizzes insert failed
PartialDocumentStored ==
    \E r \in DOMAIN posts :
        /\ posts[r].failedAt = "insertQuizzes"
        /\ posts[r].response.status = 500
        /\ MaterialStored(posts[r].sid)
        /\ posts[r].sid \in db.flashcards
        /\ posts[r].sid \notin db.quizzes

(***************************************************************************)
(* Termination and the number of provider requests                         *)
(***************************************************************************)
\* Every provider request completes, every timer fires and the store answers:
\* whatever step of the run is possible is eventually taken.
FairSpec == Spec /\ WF_vars(Next)

RECURSIVE RequestsOf(_)
RequestsOf(ts) == IF ts = <<>> THEN 0 ELSE Head(ts).requests + RequestsOf(Tail(ts))

\* the provider requests of the run so far
TotalRequests == RequestsOf(tasks)

NoneMalformed == \A j \in Tasks : tasks[j].malformed = 0

\* the run is over: POST has answered and no request is in flight
RunOver == pc = "responded" /\ InFlight = {}

DocumentOrError ==
    \/ response.status = 200 /\ response.body = combinedMaterials /\ response.body # Undefined
    \/ response.status = 500 /\ response.error # ""

\* C29 as stated: a run in which no response is malformed issues exactly one
\* request per chunk.
OneRequestPerChunk ==
    (RunOver /\ NoneMalformed) => \A j \in Tasks : tasks[j].requests = 1

\* chunk j belongs to a batch that was dispatched
Dispatched(j) == \E g \in 1..group : j \in GroupIndices(chunks, g)

RequestsBounded ==
    /\ TotalRequests <= 3 * Len(contentChunks)
    /\ pc = "responded" => DocumentOrError
    /\ NoneMalformed =>
          /\ \A j \in Tasks : tasks[j].requests = (IF Dispatched(j) THEN 1 ELSE 0)
          /\ response.status = 200 => TotalRequests = Len(contentChunks)

\* C29, amended: provided every provider request eventually completes, the run
\* terminates with either a merged document or an error and issues at most 3n
\* provider requests; in a run where no response is malformed it issues exactly
\* one request for each chunk of the batches it dispatched and none for the
\* others, hence exactly n when it returns a document.
RunTerminatesWithinBudget == []RequestsBounded /\ <>[]RunOver

\* a run over 4 chunks ended with a document after 4 requests
RunTerminatesWitness ==
    /\ RunOver
    /\ NoneMalformed
    /\ Len(contentChunks) = 4
    /\ response.status = 200
    /\ TotalRequests = 4

\* a run over one chunk spent its whole budget of 3 requests
BudgetSpentWitness ==
    /\ RunOver
    /\ Len(contentChunks) = 1
    /\ TotalRequests = 3

(***************************************************************************)
(* getVideoTranscript (part_003).  The transcript service answers each     *)
(* request with an array holding the transcription, with an error object,  *)
(* or the request fails.  Texts are sequences of lexemes.                  *)
(*   pc  "start"     before getVideoId                                     *)
(*       "request"   in await axios.request(options)                       *)
(*       "returned"  the text was returned                                 *)
(*       "thrown"    Error('Failed to get video transcript: ...') thrown   *)
(***************************************************************************)
LanguageError == "This language is not available on this video."

Transcription(subs) == [kind |-> "transcription", subs |-> subs, langs |-> <<>>, error |-> ""]
ErrorObject(error, langs) == [kind |-> "error", subs |-> <<>>, langs |-> langs, error |-> error]
EmptyArray == [kind |-> "empty", subs |-> <<>>, langs |-> <<>>, error |-> ""]
NoTranscription == [kind |-> "noTranscription", subs |-> <<>>, langs |-> <<>>, error |-> ""]
Rejection == [kind |-> "rejects", subs |-> <<>>, langs |-> <<>>, error |-> "Network Error"]

\* the subtitles of a video: "Hello [Applause] world", a bracket that spans a
\* line break, blanks around a word, brackets only, and no subtitle at all
SubtitleLists ==
    { <<<<"Hello">>, <<"[", "Applause", "]">>, <<"world">>>>,
      <<<<"Hello", " ", "[", "a">>, <<"\n", "b", "]">>>>,
      <<<<" ", "Hello", " ">>, <<" ">>>>,
      <<<<"[", "]">>>>,
      <<>> }

ServiceAnswers ==
    { Transcription(subs) : subs \in SubtitleLists }
    \cup { ErrorObject(LanguageError, langs) :
              langs \in {<<>>, <<"es">>, <<"es", "en">>, <<"en", "es">>} }
    \cup { ErrorObject("Video not found", <<>>), EmptyArray, NoTranscription, Rejection }

VideoIds == {"", "v1"}

\* .map(item => item.subtitle).join(' ')
RECURSIVE JoinSubtitles(_)
JoinSubtitles(subs) ==
    IF subs = <<>> THEN <<>>
    ELSE IF Len(subs) = 1 THEN subs[1]
    ELSE subs[1] \o <<" ">> \o JoinSubtitles(Tail(subs))

\* the end of the match of /\[.*?\]/ at the head of text, 0 if there is none:
\* the nearest "]" with no line terminator before it
BracketMatchEnd(text) ==
    LET ends == {k \in 2..Len(text) :
                    /\ text[k] = "]"
                    /\ \A m \in 2..(k - 1) : text[m] \notin LineTerminators /\ text[m] # "]"}
    IN IF text # <<>> /\ text[1] = "[" /\ ends # {} THEN CHOOSE k \in ends : TRUE ELSE 0

\* .replace(/\[.*?\]/g, '')
RECURSIVE RemoveBracketed(_)
RemoveBracketed(text) ==
    IF text = <<>> THEN <<>>
    ELSE IF BracketMatchEnd(text) > 0
    THEN RemoveBracketed(SubSeq(text, BracketMatchEnd(text) + 1, Len(text)))
    ELSE <<Head(text)>> \o RemoveBracketed(Tail(text))

\* .replace(/\s+/g, ' ')
RECURSIVE CollapseWhiteSpace(_)
CollapseWhiteSpace(text) ==
    IF text = <<>> THEN <<>>
    ELSE IF Head(text) \in WhiteSpace
    THEN <<" ">> \o CollapseWhiteSpace(TrimStart(text))
    ELSE <<Head(text)>> \o CollapseWhiteSpace(Tail(text))

\* fullText
CleanTranscript(subs) == Trim(CollapseWhiteSpace(RemoveBracketed(JoinSubtitles(subs))))

\* `[Note: This transcript is in ${lang} language as English was not available] `
Note(lang) ==
    <<"[Note: This transcript is in ">> \o (IF lang = "" THEN <<>> ELSE <<lang>>)
    \o <<" language as English was not available] ">>

\* if (options.params.lang !== 'en')
NoteNeeded(lang) == lang # "en"

InitTranscript ==
    /\ ChunkerOff /\ RetryOff /\ RepairOff /\ RunOff /\ LoopOff /\ MergeOff /\ CacheOff
    /\ transcript \in
          [pc : {"start"}, videoId : VideoIds,
           answers : {<<first, second>> : first \in ServiceAnswers, second \in ServiceAnswers},
           lang : {""}, requests : {0}, returned : {<<>>}, error : {""}]

transcriptOthers == <<chunkVars, retryVars, repairVars, runVars, chunkLoop, merging, cacheVars>>

TranscriptThrown(message) ==
    [transcript EXCEPT !.pc = "thrown", !.error = message]

\* getVideoId, options with lang: '', and the first axios.request
StartTranscript ==
    /\ transcript.pc = "start"
    /\ transcript' =
          IF transcript.videoId = "" THEN TranscriptThrown("Invalid YouTube URL")
          ELSE [transcript EXCEPT !.pc = "request", !.requests = 1]
    /\ UNCHANGED transcriptOthers

\* the fallback applies: the language error with a non-empty availableLangs
FallbackApplies(answer) ==
    answer.kind = "error" /\ answer.error = LanguageError /\ answer.langs # <<>>

\* lines 68-97, on the response kept
Processed(answer) ==
    CASE answer.kind = "error" -> TranscriptThrown(answer.error)
      [] answer.kind = "empty" -> TranscriptThrown("Invalid response from transcript service")
      [] answer.kind = "noTranscription" ->
            TranscriptThrown("No transcript available for this video")
      [] answer.kind = "transcription" ->
            [transcript EXCEPT !.pc = "returned",
                !.returned = (IF NoteNeeded(transcript.lang) THEN Note(transcript.lang) ELSE <<>>)
                             \o CleanTranscript(answer.subs)]

\* the first request resolves: the fallback request is made, or the response
\* is processed
FirstRequestResolves ==
    /\ transcript.pc = "request"
    /\ transcript.requests = 1
    /\ LET answer == transcript.answers[1]
       IN /\ answer.kind # "rejects"
          /\ transcript' =
                IF FallbackApplies(answer)
                THEN [transcript EXCEPT !.lang = answer.langs[1], !.requests = 2]
                ELSE Processed(answer)
    /\ UNCHANGED transcriptOthers

\* the fallback request resolves: its response is processed whatever it is
FallbackRequestResolves ==
    /\ transcript.pc = "request"
    /\ transcript.requests = 2
    /\ transcript.answers[2].kind # "rejects"
    /\ transcript' = Processed(transcript.answers[2])
    /\ UNCHANGED transcriptOthers

\* axios.request rejects: the catch rethrows
RequestRejects ==
    /\ transcript.pc = "request"
    /\ transcript.answers[transcript.requests].kind = "rejects"
    /\ transcript' = TranscriptThrown(transcript.answers[transcript.requests].error)
    /\ UNCHANGED transcriptOthers

NextTranscript ==
    \/ StartTranscript
    \/ FirstRequestResolves
    \/ FallbackRequestResolves
    \/ RequestRejects

SpecTranscript == InitTranscript /\ [][NextTranscript]_vars

\* the response the returned text was made from
TranscriptUsed == transcript.answers[transcript.requests]
FallbackUsed == transcript.requests = 2

\* C30: getVideoTranscript issues at most 2 requests to the transcript service,
\* and prefixes the note to the returned text only when the fallback language
\* was used; when the default request succeeds the returned text is the
\* cleaned transcript without any note.
NoteOnlyOnFallback ==
    /\ transcript.requests <= 2
    /\ transcript.pc = "returned" =>
          IF FallbackUsed
          THEN transcript.returned \in
                  { CleanTranscript(TranscriptUsed.subs),
                    Note(transcript.lang) \o CleanTranscript(TranscriptUsed.subs) }
          ELSE transcript.returned = CleanTranscript(TranscriptUsed.subs)

\* what holds: at most 2 requests, and the note unless the language is 'en'
NoteUnlessEnglish ==
    /\ transcript.requests <= 2
    /\ transcript.pc = "returned" =>
          transcript.returned =
              (IF transcript.lang = "en" THEN <<>> ELSE Note(transcript.lang))
              \o CleanTranscript(TranscriptUsed.subs)

\* the default request succeeded and the text carries the note
NoteOnDefaultRequest ==
    /\ transcript.pc = "returned"
    /\ ~FallbackUsed
    /\ transcript.returned = Note("") \o <<"Hello", " ", "world">>

====
